---- MODULE Spec2Model ----
(***************************************************************************)
(* Apply/prune orchestration of cli-utils: Applier.Run (pkg/apply/         *)
(* applier.go), the prune engine and its validation filters as exercised   *)
(* by pkg/apply/prune/prune_test.go, and the event stream they produce.    *)
(*                                                                         *)
(* Strings that the code transforms or compares (namespaces, names) are    *)
(* sequences of characters, so that strings.ToLower / strings.TrimSpace    *)
(* are computed rather than assumed.                                       *)
(***************************************************************************)
EXTENDS Integers, Sequences, FiniteSets, TLC

\* Largest number of objects in the desired set and in the previous inventory.
MaxObjs == 2

\* Largest number of candidates handed to one Prune call of the prune harness.
MaxPruneObjs == 2

\* Largest number of filters in a filter chain of the prune harness.
MaxFilters == 2

(***************************************************************************)
(* Strings                                                                 *)
(***************************************************************************)

\* strings.ToLower on one character of the alphabet used here.
LowerChar(c) ==
    IF c = "A" THEN "a" ELSE IF c = "B" THEN "b" ELSE c

\* strings.ToLower
ToLower(s) == [i \in DOMAIN s |-> LowerChar(s[i])]

RECURSIVE TrimLeft(_)
TrimLeft(s) ==
    IF s # <<>> /\ Head(s) = " " THEN TrimLeft(Tail(s)) ELSE s

RECURSIVE TrimRight(_)
TrimRight(s) ==
    IF s # <<>> /\ s[Len(s)] = " " THEN TrimRight(SubSeq(s, 1, Len(s) - 1)) ELSE s

\* strings.TrimSpace
TrimSpace(s) == TrimRight(TrimLeft(s))

(***************************************************************************)
(* Objects.  An object is known by its ObjMetadata (group, kind,           *)
(* namespace, name); the attributes of its live copy in the cluster        *)
(* (annotations, uid) are looked up by identifier.                          *)
(***************************************************************************)

ObjMeta(g, k, ns, n) == [group |-> g, kind |-> k, namespace |-> ns, name |-> n]

NoId == ObjMeta("", "", <<>>, <<>>)

\* The fixtures of prune_test.go; "a" stands for test-inventory-namespace.
namespace == ObjMeta("", "Namespace", <<>>, <<"a">>)
namespaceB == ObjMeta("", "Namespace", <<>>, <<"b">>)
pod == ObjMeta("", "Pod", <<"a">>, <<"p">>)
pdb == ObjMeta("policy", "PodDisruptionBudget", <<"a">>, <<"d">>)
preventDelete == ObjMeta("", "Pod", <<"a">>, <<"k">>)
\* thirdmap: the third ConfigMap of the lifecycle-directives demo.
thirdmap == ObjMeta("", "ConfigMap", <<"a">>, <<"t">>)
\* A local manifest whose namespace is written "A " (upper case, trailing blank).
podUpper == ObjMeta("", "Pod", <<"A", " ">>, <<"p">>)
\* pdbDeleteFailure: the fake client fails to delete it.
pdbDeleteFailure == ObjMeta("policy", "PodDisruptionBudget", <<"a">>, <<"d", "f">>)
\* inventoryObj: the inventory ConfigMap itself (it carries the inventory label).
inventoryObj == ObjMeta("", "ConfigMap", <<"a">>, <<"i">>)
\* defaultObj of the inventory-policy filter test with its owning-inventory
\* annotation set to objInventoryID: one identifier for each value, since the
\* live copy's annotations are looked up by identifier.
defaultObj(objInventoryID) ==
    ObjMeta("", "Pod", <<"test-namespace">>, <<objInventoryID>>)

OnRemoveAnnotation == "cli-utils.sigs.k8s.io/on-remove"
OnRemoveKeep == "keep"
LifecycleDeleteAnnotation == "client.lifecycle.config.k8s.io/deletion"
PreventDeletion == "detach"
OwningInventoryKey == "config.k8s.io/owning-inventory"
testInventoryLabel == "test-app-label"

\* metadata.annotations of the live object, as a set of <<key, value>> pairs.
AnnotationsOf(id) ==
    CASE id = preventDelete -> {<<OnRemoveAnnotation, OnRemoveKeep>>}
      [] id = thirdmap -> {<<LifecycleDeleteAnnotation, PreventDeletion>>}
      [] id \in {namespace, namespaceB, pod, pdb, pdbDeleteFailure} ->
            {<<OwningInventoryKey, testInventoryLabel>>}
      [] id.namespace = <<"test-namespace">> ->
            IF id.name = <<"">> THEN {} ELSE {<<OwningInventoryKey, id.name[1]>>}
      [] OTHER -> {}

\* metadata.uid of the live object.
UidOf(id) ==
    CASE id = namespace -> "uid-namespace"
      [] id = namespaceB -> "uid-namespace-b"
      [] id = pod -> "pod-uid"
      [] id = pdb -> "uid2"
      [] id = pdbDeleteFailure -> "uid2"
      [] id = preventDelete -> "prevent-delete"
      [] OTHER -> ""

\* The order ordering.SortableUnstructureds sorts by: namespaces first, then
\* the identifier order.
SortOrder ==
    <<namespace, namespaceB, podUpper, pod, pdb, pdbDeleteFailure, preventDelete,
      thirdmap, inventoryObj>>

RECURSIVE SortedFrom(_, _)
SortedFrom(order, S) ==
    IF order = <<>> THEN <<>>
    ELSE IF Head(order) \in S THEN <<Head(order)>> \o SortedFrom(Tail(order), S)
    ELSE SortedFrom(Tail(order), S)

\* sort.Sort(ordering.SortableUnstructureds(objs))
SortObjs(S) == SortedFrom(SortOrder, S)

SeqToSet(s) == {s[i] : i \in DOMAIN s}

\* SelectSeq with a predicate that may mention bound identifiers.
RECURSIVE Without(_, _)
Without(s, S) ==
    IF s = <<>> THEN <<>>
    ELSE IF Head(s) \in S THEN Without(Tail(s), S)
    ELSE <<Head(s)>> \o Without(Tail(s), S)

(***************************************************************************)
(* Events (pkg/apply/event): one record shape for every event type.        *)
(***************************************************************************)

Ev(type, id, op, err, groups) ==
    [type |-> type, id |-> id, op |-> op, err |-> err, groups |-> groups]

InitEvent(groups) == Ev("Init", NoId, "", "", groups)
ApplyEvent(id, op, err) == Ev("Apply", id, op, err, <<>>)
PruneEvent(id, op, err) == Ev("Prune", id, op, err, <<>>)
DeleteEvent(id, op, err) == Ev("Delete", id, op, err, <<>>)
WaitEvent(id, op) == Ev("Wait", id, op, "", <<>>)
StatusEvent(id, st) == Ev("Status", id, st, "", <<>>)

\* The event handleError sends.
handleError(err) == Ev("Error", NoId, "", err, <<>>)

(***************************************************************************)
(* State                                                                   *)
(***************************************************************************)

VARIABLES
    \* Arguments of Run (or of the Prune call of the prune harness).
    invInfo,        \* the InventoryInfo handed to Run
    objects,        \* the desired objects handed to Run (set of identifiers)
    options,        \* Options
    \* The remote system.
    clusterInv,     \* identifiers stored in the cluster's inventory object
    cluster,        \* identifiers of the live objects
    deleteCalls,    \* delete calls issued to the resource client, in order
    status,         \* last status the poller reported for each identifier
    \* The orchestrating goroutine.
    pc,             \* its position
    applyObjs,      \* objects to apply (sequence)
    pruneObjs,      \* prune candidates (sequence)
    pruneFilters,   \* the filter chain handed to Prune
    taskQueue,      \* the built task queue
    taskIdx,        \* number of tasks completed
    objIdx,         \* number of objects of the current task already processed
    waitPending,    \* identifiers the current wait task still waits for
    applyFailed,    \* identifiers whose apply failed
    filterCalls,    \* filter evaluations made: <<candidate index, filter index>>
    runnerErr,      \* the error runner.Run returned ("" for nil)
    cancelled,      \* the context handed to Run is done
    \* The event channel.
    chan,           \* events sent and not yet received
    chanCap,        \* capacity of the channel (0: unbuffered)
    received,       \* events the caller has received, in order
    closeCount,     \* number of close(eventChannel) calls
    sentOnClosed,   \* an event was sent on the closed channel
    \* The inventory-policy filters under test.
    tc,             \* the test case: inventory id, object, policy
    pruneVerdict,   \* what InventoryPolicyFilter.Filter returned
    applyVerdict,   \* what InventoryPolicyApplyFilter.Filter returned
    \* The table printer and its resourceStateCollector.
    printPc,        \* position of Printer.Print
    printErr,       \* the error Print returned
    collector,      \* the resourceStateCollector: records and status objects
    listenerPc,     \* position of the goroutine Listen starts
    listenerEv,     \* the event that goroutine is processing
    completed,      \* the channel Listen returns
    \* Callers of LatestState and Stats.
    mux,            \* number of read locks held on collector.mux
    queryPc,        \* the query in progress
    queryVisited,   \* identifiers the query's loop has visited
    queryAcc,       \* what the query's loop has built so far
    queryFrom,      \* number of events processed when the query started
    queries,        \* the finished queries with their results, in order
    \* The status poller.
    subscriptions,  \* the identifier sets it was asked to watch, in order
    \* An inventory wrapper (inventory.ConfigMap or InventoryCustomType).
    wrapped,        \* the content of the object it wraps
    objMetas,       \* ConfigMap.objMetas: the identifiers handed to Store
    gotObject,      \* the content of the object GetObject returned
    loaded          \* what the last Load of each object returned

vars == <<invInfo, objects, options, clusterInv, cluster, deleteCalls, status,
          pc, applyObjs, pruneObjs, pruneFilters, taskQueue, taskIdx, objIdx,
          waitPending, applyFailed, filterCalls, runnerErr, cancelled,
          chan, chanCap, received, closeCount, sentOnClosed,
          tc, pruneVerdict, applyVerdict,
          printPc, printErr, collector, listenerPc, listenerEv, completed,
          mux, queryPc, queryVisited, queryAcc, queryFrom, queries,
          subscriptions, wrapped, objMetas, gotObject, loaded>>

inputVars == <<invInfo, objects, options, clusterInv>>
remoteVars == <<cluster, deleteCalls, status>>
planVars == <<applyObjs, pruneObjs, pruneFilters, taskQueue>>
runnerVars == <<taskIdx, objIdx, waitPending, applyFailed, filterCalls,
                runnerErr>>
chanVars == <<chan, chanCap, received, closeCount, sentOnClosed>>
filterTestVars == <<tc, pruneVerdict, applyVerdict>>
printerVars == <<printPc, printErr, collector, listenerPc, listenerEv, completed>>
queryVars == <<mux, queryPc, queryVisited, queryAcc, queryFrom, queries>>
storageVars == <<wrapped, objMetas, gotObject, loaded>>

\* No filter test is running.
FilterTestIdle ==
    /\ tc = <<>>
    /\ pruneVerdict = <<>>
    /\ applyVerdict = <<>>

\* No printer is attached to the event channel.
PrinterIdle ==
    /\ printPc = "none"
    /\ printErr = <<>>
    /\ collector = <<>>
    /\ listenerPc = "none"
    /\ listenerEv = <<>>
    /\ completed = <<>>

\* Nobody queries a collector.
QueryIdle ==
    /\ mux = 0
    /\ queryPc = "none"
    /\ queryVisited = {}
    /\ queryAcc = <<>>
    /\ queryFrom = 0
    /\ queries = <<>>

\* No inventory wrapper is in use.
StorageIdle ==
    /\ wrapped = <<>>
    /\ objMetas = <<>>
    /\ gotObject = <<>>
    /\ loaded = <<>>

(***************************************************************************)
(* Validation filters (pkg/apply/filter).  A filter is a record; Filter    *)
(* returns whether the object must NOT be pruned, and an error.            *)
(***************************************************************************)

FilterRec(type, uids, nss, inv, policy, skip, err) ==
    [type |-> type, CurrentUIDs |-> uids, LocalNamespaces |-> nss,
     Inv |-> inv, InvPolicy |-> policy, skip |-> skip, err |-> err]

PreventRemoveFilter == FilterRec("PreventRemove", {}, {}, "", "", FALSE, "")
CurrentUIDFilter(uids) == FilterRec("CurrentUID", uids, {}, "", "", FALSE, "")
LocalNamespacesFilter(nss) == FilterRec("LocalNamespaces", {}, nss, "", "", FALSE, "")
InventoryPolicyFilter(inv, policy) == FilterRec("InventoryPolicy", {}, {}, inv, policy, FALSE, "")
\* A test double returning a fixed answer.
StubFilter(skip, err) == FilterRec("Stub", {}, {}, "", "", skip, err)

FilterResult(skip, err) == [skip |-> skip, err |-> err]

\* NoDeletion that knows the on-remove directive only.
NoDeletion_OnRemoveOnly(key, value) ==
    key = OnRemoveAnnotation /\ value = OnRemoveKeep

\* common.NoDeletion: the annotation is one of the two "do not delete" directives.
NoDeletion(key, value) ==
    \/ key = OnRemoveAnnotation /\ value = OnRemoveKeep
    \/ key = LifecycleDeleteAnnotation /\ value = PreventDeletion

\* PreventRemoveFilter.Filter that lets every object through.
PreventRemoveFilter_Filter_Never(id) == FilterResult(FALSE, "")

\* PreventRemoveFilter.Filter
PreventRemoveFilter_Filter(id) ==
    FilterResult(\E a \in AnnotationsOf(id) : NoDeletion(a[1], a[2]), "")

\* CurrentUIDFilter.Filter with the membership test negated.
CurrentUIDFilter_Filter_Negated(f, id) ==
    FilterResult(UidOf(id) \notin f.CurrentUIDs, "")

\* CurrentUIDFilter.Filter
CurrentUIDFilter_Filter(f, id) ==
    FilterResult(UidOf(id) \in f.CurrentUIDs, "")

\* LocalNamespacesFilter.Filter
LocalNamespacesFilter_Filter(f, id) ==
    FilterResult(id.group = "" /\ id.kind = "Namespace" /\ id.name \in f.LocalNamespaces, "")

\* The value of the owning-inventory annotation ("" when absent).
OwningInventory(id) ==
    IF \E a \in AnnotationsOf(id) : a[1] = OwningInventoryKey
    THEN (CHOOSE a \in AnnotationsOf(id) : a[1] = OwningInventoryKey)[2]
    ELSE ""

\* inventory.CanPrune
CanPrune(inv, id, policy) ==
    CASE OwningInventory(id) = "" -> policy \in {"AdoptIfNoInventory", "AdoptAll"}
      [] OwningInventory(id) = inv -> TRUE
      [] OTHER -> policy = "AdoptAll"

\* InventoryPolicyFilter.Filter without the negation of CanPrune.
InventoryPolicyFilter_Filter_NotNegated(f, id) ==
    IF CanPrune(f.Inv, id, f.InvPolicy)
    THEN FilterResult(TRUE, "")
    ELSE FilterResult(FALSE, "")

\* InventoryPolicyFilter.Filter reporting the mismatch as an error.
InventoryPolicyFilter_Filter_Error(f, id) ==
    IF ~CanPrune(f.Inv, id, f.InvPolicy)
    THEN FilterResult(TRUE, "object does not belong to the inventory")
    ELSE FilterResult(FALSE, "")

\* InventoryPolicyFilter.Filter
InventoryPolicyFilter_Filter(f, id) ==
    IF ~CanPrune(f.Inv, id, f.InvPolicy)
    THEN FilterResult(TRUE, "")
    ELSE FilterResult(FALSE, "")

\* The apply-side filter returns {filtered, reason, error}.
ApplyFilterResult(skip, reason, err) == [skip |-> skip, reason |-> reason, err |-> err]

InventoryPolicyApplyFilter(inv, policy) ==
    FilterRec("InventoryPolicyApply", {}, {}, inv, policy, FALSE, "")

\* InventoryPolicyApplyFilter.Filter: the object may be applied when the
\* policy adopts everything, when its owning inventory is the current one,
\* or when it has no owning inventory and the policy is not MustMatch.
InventoryPolicyApplyFilter_Filter(f, id) ==
    IF f.InvPolicy = "AdoptAll" THEN ApplyFilterResult(FALSE, "", "")
    ELSE IF OwningInventory(id) = f.Inv THEN ApplyFilterResult(FALSE, "", "")
    ELSE IF OwningInventory(id) = ""
    THEN IF f.InvPolicy = "MustMatch"
         THEN ApplyFilterResult(TRUE, "inventory policy prevented apply",
                                "object needs adoption")
         ELSE ApplyFilterResult(FALSE, "", "")
    ELSE ApplyFilterResult(TRUE, "inventory policy prevented apply",
                           "object belongs to another inventory")

\* ValidationFilter.Filter, dispatched on the filter's type.
Filter(f, id) ==
    CASE f.type = "PreventRemove" -> PreventRemoveFilter_Filter(id)
      [] f.type = "CurrentUID" -> CurrentUIDFilter_Filter(f, id)
      [] f.type = "LocalNamespaces" -> LocalNamespacesFilter_Filter(f, id)
      [] f.type = "InventoryPolicy" -> InventoryPolicyFilter_Filter(f, id)
      [] OTHER -> FilterResult(f.skip, f.err)

(***************************************************************************)
(* The prune engine (PruneOptions.Prune), one candidate at a time.         *)
(***************************************************************************)

\* The filter loop without the break: every filter is evaluated, the last
\* rejecting one gives the verdict.
RECURSIVE RunFilters_NoBreak(_, _, _)
RunFilters_NoBreak(filters, id, k) ==
    IF k > Len(filters)
    THEN [calls |-> <<>>, skip |-> FALSE, err |-> ""]
    ELSE LET r == Filter(filters[k], id)
             rest == RunFilters_NoBreak(filters, id, k + 1)
         IN
         IF rest.skip THEN [rest EXCEPT !.calls = <<k>> \o @]
         ELSE [calls |-> <<k>> \o rest.calls, skip |-> r.skip \/ r.err # "", err |-> r.err]

\* The filter loop of Prune for one candidate, from filter k on: the filters
\* evaluated (their indices, in order) and the verdict.
RECURSIVE RunFilters(_, _, _)
RunFilters(filters, id, k) ==
    IF k > Len(filters)
    THEN [calls |-> <<>>, skip |-> FALSE, err |-> ""]
    ELSE LET r == Filter(filters[k], id) IN
         IF r.skip \/ r.err # ""
         THEN [calls |-> <<k>>, skip |-> TRUE, err |-> r.err]
         ELSE LET rest == RunFilters(filters, id, k + 1) IN
              [rest EXCEPT !.calls = <<k>> \o @]

\* The outcome event without the destroy mode: always a Prune event.
PruneOutcomeEvent_AlwaysPrune(opts, id, skipped, err) ==
    PruneEvent(id, IF skipped THEN "PruneSkipped"
                   ELSE IF err # "" THEN "PruneUnspecified" ELSE "Pruned", err)

\* The event Prune sends for one candidate: a Delete event under Destroy,
\* a Prune event otherwise.
PruneOutcomeEvent(opts, id, skipped, err) ==
    IF opts.Destroy
    THEN DeleteEvent(id, IF skipped THEN "DeleteSkipped"
                         ELSE IF err # "" THEN "DeleteUnspecified" ELSE "Deleted", err)
    ELSE PruneEvent(id, IF skipped THEN "PruneSkipped"
                        ELSE IF err # "" THEN "PruneUnspecified" ELSE "Pruned", err)

\* The delete call without the dry-run flag.
DeleteCall_NoDryRunFlag(opts, id) ==
    [id |-> id, dryRun |-> FALSE, propagation |-> opts.PropagationPolicy]

\* The delete call Prune issues to the resource client.
DeleteCall(opts, id) ==
    [id |-> id, dryRun |-> opts.DryRunStrategy = "Server",
     propagation |-> opts.PropagationPolicy]

\* Prune for the candidate id: the filters evaluated, the delete calls issued,
\* whether the object is gone afterwards, and the event sent.  deleteErr is the
\* error the resource client's Delete returns ("" for nil).
PruneOne(id, filters, opts, deleteErr) ==
    LET f == RunFilters(filters, id, 1) IN
    IF f.skip
    THEN [calls |-> f.calls, deletes |-> <<>>, removed |-> FALSE, skipped |-> TRUE,
          event |-> PruneOutcomeEvent(opts, id, TRUE, f.err)]
    ELSE IF opts.DryRunStrategy = "Client"
    THEN [calls |-> f.calls, deletes |-> <<>>, removed |-> FALSE, skipped |-> FALSE,
          event |-> PruneOutcomeEvent(opts, id, FALSE, "")]
    ELSE [calls |-> f.calls, deletes |-> <<DeleteCall(opts, id)>>,
          removed |-> deleteErr = "" /\ opts.DryRunStrategy = "None",
          skipped |-> FALSE,
          event |-> PruneOutcomeEvent(opts, id, FALSE, deleteErr)]

\* prune.Options
PruneOpts(dryRun, propagation, destroy) ==
    [DryRunStrategy |-> dryRun, PropagationPolicy |-> propagation, Destroy |-> destroy]

\* fakeNamespaceClient.Delete of prune_test.go
FakeDelete(id) ==
    IF id = pdbDeleteFailure THEN "expected delete error" ELSE ""

(***************************************************************************)
(* Applier (pkg/apply/applier.go)                                          *)
(***************************************************************************)

\* poller.DefaultPollInterval, in seconds.
DefaultPollInterval == 2

\* setDefaults overwriting the two options whatever they hold.
setDefaults_Overwrite(o) ==
    [o EXCEPT !.PollInterval = DefaultPollInterval,
              !.PrunePropagationPolicy = "Background"]

\* setDefaults
setDefaults(o) ==
    [o EXCEPT
       !.PollInterval = IF @ = 0 THEN DefaultPollInterval ELSE @,
       !.PrunePropagationPolicy = IF @ = "" THEN "Background" ELSE @]

\* The namespaces localNamespaces collects from the objects' identifiers.
ObjNamespaces(localObjs) ==
    {TrimSpace(ToLower(obj.namespace)) : obj \in localObjs} \ {<<>>}

\* localNamespaces without the inventory object's namespace.
InvNamespaces_None(localInv) == {}

\* The namespace localNamespaces adds for the inventory object.
InvNamespaces(localInv) ==
    {TrimSpace(ToLower(localInv.namespace))} \ {<<>>}

\* localNamespaces
localNamespaces(localInv, localObjs) ==
    ObjNamespaces(localObjs) \cup InvNamespaces(localInv)

\* inventory.ValidateNoInventory: no local object may be an inventory object.
ValidateNoInventory(localObjs) ==
    IF inventoryObj \in localObjs
    THEN "inventory object found among the objects to apply"
    ELSE ""

\* object.SetDiff that removes nothing.
SetDiff_KeepAll(setA, setB) == setA

\* object.SetDiff on the identifiers: those of setA that are not in setB,
\* in setA's order.
SetDiff(setA, setB) == Without(setA, SeqToSet(setB))

\* PruneOptions.GetPruneObjs: the inventory's identifiers that no local object has.
GetPruneObjs(prevInvIds, localObjs) ==
    SetDiff(prevInvIds, SortObjs(localObjs))

PrepareResult(err, apply, prune) ==
    [err |-> err, applyObjs |-> apply, pruneObjs |-> prune]

\* The inventory-id check without the comparison of the label.
InventoryIdCheck_NoCompare(localInv, clusterInvObjs) ==
    IF localInv.strategy = "Name" /\ localInv.id # ""
    THEN IF clusterInvObjs.err # "" THEN clusterInvObjs.err
         ELSE IF Len(clusterInvObjs.labels) > 1 THEN "panic"
         ELSE ""
    ELSE ""

\* The inventory-id check of prepareObjects.  clusterInvObjs is what
\* GetClusterInventoryObjs returns: an error, or the labels of the inventory
\* objects found.
InventoryIdCheck(localInv, clusterInvObjs) ==
    IF localInv.strategy = "Name" /\ localInv.id # ""
    THEN IF clusterInvObjs.err # "" THEN clusterInvObjs.err
         ELSE IF Len(clusterInvObjs.labels) > 1 THEN "panic"
         ELSE IF Len(clusterInvObjs.labels) = 1 /\ clusterInvObjs.labels[1] # localInv.id
              THEN "inventory-id of inventory object in cluster doesn't match provided id"
         ELSE ""
    ELSE ""

\* prepareObjects handing GetPruneObjs no local objects: the whole previous
\* inventory comes back.
prepareObjects_NoLocalObjs(localInv, localObjs, clusterInvObjs, prevInvIds, pruneErr) ==
    IF localInv.nil
    THEN PrepareResult("the local inventory can't be nil", <<>>, <<>>)
    ELSE IF ValidateNoInventory(localObjs) # ""
    THEN PrepareResult(ValidateNoInventory(localObjs), <<>>, <<>>)
    ELSE IF InventoryIdCheck(localInv, clusterInvObjs) # ""
    THEN PrepareResult(InventoryIdCheck(localInv, clusterInvObjs), <<>>, <<>>)
    ELSE IF pruneErr # ""
    THEN PrepareResult(pruneErr, <<>>, <<>>)
    ELSE PrepareResult("", SortObjs(localObjs), GetPruneObjs(prevInvIds, {}))

\* prepareObjects.  prevInvIds is the inventory GetPruneObjs reads from the
\* cluster and pruneErr the error it returns.
prepareObjects(localInv, localObjs, clusterInvObjs, prevInvIds, pruneErr) ==
    IF localInv.nil
    THEN PrepareResult("the local inventory can't be nil", <<>>, <<>>)
    ELSE IF ValidateNoInventory(localObjs) # ""
    THEN PrepareResult(ValidateNoInventory(localObjs), <<>>, <<>>)
    ELSE IF InventoryIdCheck(localInv, clusterInvObjs) # ""
    THEN PrepareResult(InventoryIdCheck(localInv, clusterInvObjs), <<>>, <<>>)
    ELSE IF pruneErr # ""
    THEN PrepareResult(pruneErr, <<>>, <<>>)
    ELSE PrepareResult("", SortObjs(localObjs), GetPruneObjs(prevInvIds, localObjs))

\* The prune validation filters Run builds.
RunPruneFilters(inv, objs, opts) ==
    <<PreventRemoveFilter,
      InventoryPolicyFilter(inv.id, opts.InventoryPolicy),
      LocalNamespacesFilter(localNamespaces(inv, objs))>>

(***************************************************************************)
(* Task queue builder (pkg/apply/solver)                                   *)
(***************************************************************************)

Task(kind, name, action, ids, cond) ==
    [kind |-> kind, name |-> name, action |-> action, ids |-> ids, cond |-> cond]

\* solver.Options with the two timeouts taken from each other's option.
SolverOptions_TimeoutsSwapped(o) ==
    [ReconcileTimeout |-> o.PruneTimeout,
     Prune |-> ~o.NoPrune,
     DryRunStrategy |-> o.DryRunStrategy,
     PrunePropagationPolicy |-> o.PrunePropagationPolicy,
     PruneTimeout |-> o.ReconcileTimeout,
     InventoryPolicy |-> o.InventoryPolicy]

\* solver.Options with Prune set from NoPrune without the negation.
SolverOptions_PruneNotNegated(o) ==
    [ReconcileTimeout |-> o.ReconcileTimeout,
     Prune |-> o.NoPrune,
     DryRunStrategy |-> o.DryRunStrategy,
     PrunePropagationPolicy |-> o.PrunePropagationPolicy,
     PruneTimeout |-> o.PruneTimeout,
     InventoryPolicy |-> o.InventoryPolicy]

\* solver.Options as Run fills them in.
SolverOptions(o) ==
    [ReconcileTimeout |-> o.ReconcileTimeout,
     Prune |-> ~o.NoPrune,
     DryRunStrategy |-> o.DryRunStrategy,
     PrunePropagationPolicy |-> o.PrunePropagationPolicy,
     PruneTimeout |-> o.PruneTimeout,
     InventoryPolicy |-> o.InventoryPolicy]

AppendInvAddTask(q, apply) ==
    Append(q, Task("InvAdd", "inventory-add-0", "InventoryAdd", apply, ""))

AppendApplyWaitTasks(q, apply, o) ==
    Append(q, Task("Apply", "apply-0", "Apply", apply, ""))
    \o (IF o.ReconcileTimeout # 0
        THEN <<Task("Wait", "wait-0", "Wait", apply, "AllCurrent")>>
        ELSE <<>>)

AppendPruneWaitTasks(q, prune, o) ==
    IF o.Prune
    THEN Append(q, Task("Prune", "prune-0", "Prune", prune, ""))
         \o (IF o.PruneTimeout # 0
             THEN <<Task("Wait", "wait-1", "Wait", prune, "AllNotFound")>>
             ELSE <<>>)
    ELSE q

AppendInvSetTask(q) ==
    Append(q, Task("InvSet", "inventory-set-0", "InventorySet", <<>>, ""))

\* The queue with the prune tasks appended before the apply tasks.
BuildTaskQueue_PruneFirst(apply, prune, o) ==
    AppendInvSetTask(
        AppendApplyWaitTasks(
            AppendPruneWaitTasks(AppendInvAddTask(<<>>, apply), prune, o),
            apply, o))

\* The queue Run builds.
BuildTaskQueue(apply, prune, o) ==
    AppendInvSetTask(
        AppendPruneWaitTasks(
            AppendApplyWaitTasks(AppendInvAddTask(<<>>, apply), apply, o),
            prune, o))

\* TaskQueue.ToActionGroups
ToActionGroups(q) ==
    [i \in DOMAIN q |-> [name |-> q[i].name, action |-> q[i].action, ids |-> q[i].ids]]

(***************************************************************************)
(* The event channel                                                       *)
(***************************************************************************)

\* A send can be made: an unbuffered channel has no send outstanding, a
\* buffered one has room.
CanSend == IF chanCap = 0 THEN chan = <<>> ELSE Len(chan) < chanCap

\* The sender's last send has completed (an unbuffered send completes when
\* the event is received).
SendDone == chanCap # 0 \/ chan = <<>>

\* The events evs are sent one after the other by one handler, which goes on
\* once the last of them has been received.
SendAll(evs) ==
    /\ chan' = chan \o evs
    /\ sentOnClosed' = (sentOnClosed \/ (evs # <<>> /\ closeCount > 0))
    /\ UNCHANGED <<chanCap, received, closeCount>>

\* eventChannel <- e
Send(e) == SendAll(<<e>>)

\* The caller receives the next event.  The prune harness reads its buffered
\* channel only after Prune has returned and the channel is closed.
Drain ==
    /\ chan # <<>>
    /\ chanCap = 0 \/ closeCount > 0
    /\ received' = Append(received, Head(chan))
    /\ chan' = Tail(chan)
    /\ UNCHANGED <<chanCap, closeCount, sentOnClosed>>
    /\ UNCHANGED <<inputVars, remoteVars, planVars, runnerVars, pc, cancelled>>
    /\ UNCHANGED <<filterTestVars, printerVars, queryVars, storageVars, subscriptions>>

(***************************************************************************)
(* Applier.Run                                                             *)
(***************************************************************************)

AllObjs ==
    {namespace, namespaceB, pod, pdb, pdbDeleteFailure, preventDelete, thirdmap,
     podUpper, inventoryObj}

\* Objects a caller may pass to Run, and objects a previous run may have left
\* in the inventory.  Live objects have names the API server accepted: lower
\* case, no blanks.
LocalObjs == {namespace, pod, podUpper, inventoryObj}
ClusterObjs == {namespace, namespaceB, pod}

BoundedSubsets(S, n) == {T \in SUBSET S : Cardinality(T) <= n}

NilInv == [nil |-> TRUE, namespace |-> <<>>, strategy |-> "", id |-> ""]
Inv(ns, strategy, id) == [nil |-> FALSE, namespace |-> ns, strategy |-> strategy, id |-> id]

InvInfos ==
    {NilInv,
     Inv(<<"B", " ">>, "Name", testInventoryLabel),
     Inv(<<>>, "Label", "")}

RunOptions ==
    [ReconcileTimeout : {0, 1},
     PollInterval : {0},
     EmitStatusEvents : BOOLEAN,
     NoPrune : BOOLEAN,
     DryRunStrategy : {"None"},
     PrunePropagationPolicy : {""},
     PruneTimeout : {0, 1},
     InventoryPolicy : {"MustMatch"}]

\* What GetClusterInventoryObjs may return: an error, or the inventory-id
\* labels of the inventory objects found (at most one is found by name).
ClusterInvObjsResults ==
    {[err |-> "cannot list inventory objects", labels |-> <<>>],
     [err |-> "", labels |-> <<>>],
     [err |-> "", labels |-> <<testInventoryLabel>>],
     [err |-> "", labels |-> <<"other-id">>]}

RunInit ==
    /\ invInfo \in InvInfos
    /\ objects \in BoundedSubsets(LocalObjs, MaxObjs)
    /\ options \in RunOptions
    /\ clusterInv \in BoundedSubsets(ClusterObjs, MaxObjs)
    /\ cluster = clusterInv
    /\ deleteCalls = <<>>
    /\ status = [id \in AllObjs |-> "Unknown"]
    /\ pc = "new"
    /\ applyObjs = <<>>
    /\ pruneObjs = <<>>
    /\ pruneFilters = <<>>
    /\ taskQueue = <<>>
    /\ taskIdx = 0
    /\ objIdx = 0
    /\ waitPending = {}
    /\ applyFailed = {}
    /\ filterCalls = <<>>
    /\ runnerErr = ""
    /\ cancelled = FALSE
    /\ chan = <<>>
    /\ chanCap = 0
    /\ received = <<>>
    /\ closeCount = 0
    /\ sentOnClosed = FALSE
    /\ subscriptions = <<>>
    /\ FilterTestIdle /\ PrinterIdle /\ QueryIdle /\ StorageIdle

\* Run up to the start of its goroutine: the channel is made and the options
\* get their defaults.
RunCall ==
    /\ pc = "new"
    /\ pc' = "prepare"
    /\ options' = setDefaults(options)
    /\ UNCHANGED <<invInfo, objects, clusterInv, remoteVars, planVars, runnerVars,
                   cancelled, chanVars>>
    /\ UNCHANGED <<filterTestVars, printerVars, queryVars, storageVars, subscriptions>>

\* The goroutine's call of prepareObjects without the return after handleError.
Prepare_NoReturn ==
    /\ pc = "prepare"
    /\ \E cio \in ClusterInvObjsResults, pruneErr \in {"", "cannot read the inventory"} :
          LET r == prepareObjects(invInfo, objects, cio, SortObjs(clusterInv), pruneErr) IN
          /\ IF r.err # "" THEN Send(handleError(r.err)) ELSE UNCHANGED chanVars
          /\ applyObjs' = r.applyObjs
          /\ pruneObjs' = r.pruneObjs
          /\ pc' = "mapper"
    /\ UNCHANGED <<inputVars, remoteVars, pruneFilters, taskQueue, runnerVars, cancelled>>
    /\ UNCHANGED <<filterTestVars, printerVars, queryVars, storageVars, subscriptions>>

\* The goroutine's call of prepareObjects; on an error handleError and return.
Prepare ==
    /\ pc = "prepare"
    /\ \E cio \in ClusterInvObjsResults, pruneErr \in {"", "cannot read the inventory"} :
          LET r == prepareObjects(invInfo, objects, cio, SortObjs(clusterInv), pruneErr) IN
          IF r.err = "panic"
          THEN /\ pc' = "panicked"
               /\ closeCount' = closeCount + 1
               /\ UNCHANGED <<applyObjs, pruneObjs, chan, chanCap, received, sentOnClosed>>
          ELSE IF r.err # ""
          THEN /\ Send(handleError(r.err))
               /\ pc' = "closing"
               /\ UNCHANGED <<applyObjs, pruneObjs>>
          ELSE /\ applyObjs' = r.applyObjs
               /\ pruneObjs' = r.pruneObjs
               /\ pc' = "mapper"
               /\ UNCHANGED chanVars
    /\ UNCHANGED <<inputVars, remoteVars, pruneFilters, taskQueue, runnerVars, cancelled>>
    /\ UNCHANGED <<filterTestVars, printerVars, queryVars, storageVars, subscriptions>>

\* ToRESTMapper without the return after handleError.
BuildQueue_NoReturn ==
    /\ pc = "mapper"
    /\ \E mapperErr \in {"", "cannot get the REST mapper"} :
          IF mapperErr # "" THEN Send(handleError(mapperErr)) ELSE UNCHANGED chanVars
    /\ pruneFilters' = RunPruneFilters(invInfo, objects, options)
    /\ taskQueue' = BuildTaskQueue(applyObjs, pruneObjs, SolverOptions(options))
    /\ pc' = "sendInit"
    /\ UNCHANGED <<inputVars, remoteVars, applyObjs, pruneObjs, runnerVars, cancelled>>
    /\ UNCHANGED <<filterTestVars, printerVars, queryVars, storageVars, subscriptions>>

\* factory.ToRESTMapper, then the filters and the task queue are built.
BuildQueue ==
    /\ pc = "mapper"
    /\ \E mapperErr \in {"", "cannot get the REST mapper"} :
          IF mapperErr # ""
          THEN /\ Send(handleError(mapperErr))
               /\ pc' = "closing"
               /\ UNCHANGED <<pruneFilters, taskQueue>>
          ELSE /\ pruneFilters' = RunPruneFilters(invInfo, objects, options)
               /\ taskQueue' = BuildTaskQueue(applyObjs, pruneObjs, SolverOptions(options))
               /\ pc' = "sendInit"
               /\ UNCHANGED chanVars
    /\ UNCHANGED <<inputVars, remoteVars, applyObjs, pruneObjs, runnerVars, cancelled>>
    /\ UNCHANGED <<filterTestVars, printerVars, queryVars, storageVars, subscriptions>>

\* allIds without the prune candidates.
allIds_ApplyOnly == SeqToSet(applyObjs)

\* allIds of Run: the identifiers the task status runner is made for and
\* hands to the status poller.
allIds == SeqToSet(applyObjs \o pruneObjs)

\* The runner's state on turning to the task after the first k.
NextTaskVars(k) ==
    /\ taskIdx' = k
    /\ objIdx' = 0
    /\ waitPending' = IF k < Len(taskQueue) /\ taskQueue[k + 1].kind = "Wait"
                      THEN SeqToSet(taskQueue[k + 1].ids)
                      ELSE {}

\* The runner is started without the Init event having been sent.
SendInit_NoEvent ==
    /\ pc = "sendInit"
    /\ pc' = "runner"
    /\ subscriptions' = Append(subscriptions, allIds)
    /\ NextTaskVars(0)
    /\ UNCHANGED <<inputVars, remoteVars, planVars, applyFailed, filterCalls, runnerErr,
                   cancelled, chanVars>>
    /\ UNCHANGED <<filterTestVars, printerVars, queryVars, storageVars>>

\* The Init event is sent and the runner is started.
SendInit ==
    /\ pc = "sendInit"
    /\ CanSend
    /\ Send(InitEvent(ToActionGroups(taskQueue)))
    /\ pc' = "runner"
    /\ subscriptions' = Append(subscriptions, allIds)
    /\ NextTaskVars(0)
    /\ UNCHANGED <<inputVars, remoteVars, planVars, applyFailed, filterCalls, runnerErr,
                   cancelled>>
    /\ UNCHANGED <<filterTestVars, printerVars, queryVars, storageVars>>

(***************************************************************************)
(* Task runner (pkg/apply/taskrunner): the tasks of the queue one after    *)
(* the other, each object of an apply or prune task in turn.               *)
(***************************************************************************)

Running == pc = "runner" /\ taskIdx < Len(taskQueue)

CurTask == taskQueue[taskIdx + 1]

\* InvAddTask / InvSetTask: the inventory client stores the inventory; when
\* that fails the runner returns the error, which Run reports and returns.
InvTask ==
    /\ Running
    /\ SendDone
    /\ CurTask.kind \in {"InvAdd", "InvSet"}
    /\ \E err \in {"", "cannot store the inventory"} :
          IF err = ""
          THEN /\ clusterInv' = IF CurTask.kind = "InvAdd"
                                THEN clusterInv \cup SeqToSet(CurTask.ids)
                                ELSE SeqToSet(applyObjs)
               /\ NextTaskVars(taskIdx + 1)
               /\ UNCHANGED <<runnerErr, pc, chanVars>>
          ELSE /\ runnerErr' = err
               /\ Send(handleError(err))
               /\ pc' = "closing"
               /\ UNCHANGED <<clusterInv, taskIdx, objIdx, waitPending>>
    /\ UNCHANGED <<invInfo, objects, options, remoteVars, planVars, applyFailed,
                   filterCalls, cancelled>>
    /\ UNCHANGED <<filterTestVars, printerVars, queryVars, storageVars, subscriptions>>

\* ApplyTask giving up at the first object whose apply fails: the objects
\* after it are not applied.
ApplyObj_StopAtFailure ==
    /\ Running
    /\ CanSend
    /\ CurTask.kind = "Apply"
    /\ objIdx < Len(CurTask.ids)
    /\ \E applyErr \in {"", "apply failed"} :
          LET id == CurTask.ids[objIdx + 1] IN
          /\ Send(ApplyEvent(id,
                             IF applyErr # "" THEN "ApplyUnspecified"
                             ELSE IF id \in cluster THEN "Configured" ELSE "Created",
                             applyErr))
          /\ cluster' = IF applyErr = "" /\ options.DryRunStrategy = "None"
                        THEN cluster \cup {id} ELSE cluster
          /\ applyFailed' = IF applyErr # "" THEN applyFailed \cup {id} ELSE applyFailed
          /\ objIdx' = IF applyErr # "" THEN Len(CurTask.ids) ELSE objIdx + 1
    /\ UNCHANGED <<inputVars, deleteCalls, status, planVars, pc, taskIdx, waitPending,
                   filterCalls, runnerErr, cancelled>>
    /\ UNCHANGED <<filterTestVars, printerVars, queryVars, storageVars, subscriptions>>

\* ApplyTask, one object: the apply call returns and its outcome is sent.
ApplyObj ==
    /\ Running
    /\ CanSend
    /\ CurTask.kind = "Apply"
    /\ objIdx < Len(CurTask.ids)
    /\ \E applyErr \in {"", "apply failed"} :
          LET id == CurTask.ids[objIdx + 1] IN
          /\ Send(ApplyEvent(id,
                             IF applyErr # "" THEN "ApplyUnspecified"
                             ELSE IF id \in cluster THEN "Configured" ELSE "Created",
                             applyErr))
          /\ cluster' = IF applyErr = "" /\ options.DryRunStrategy = "None"
                        THEN cluster \cup {id} ELSE cluster
          /\ applyFailed' = IF applyErr # "" THEN applyFailed \cup {id} ELSE applyFailed
    /\ objIdx' = objIdx + 1
    /\ UNCHANGED <<inputVars, deleteCalls, status, planVars, pc, taskIdx, waitPending,
                   filterCalls, runnerErr, cancelled>>
    /\ UNCHANGED <<filterTestVars, printerVars, queryVars, storageVars, subscriptions>>

\* The filter evaluations PruneOne made for the k-th candidate.
CallLog(k, calls) == [i \in DOMAIN calls |-> <<k, calls[i]>>]

\* PruneTask, one candidate.
PruneObj ==
    /\ Running
    /\ CanSend
    /\ CurTask.kind = "Prune"
    /\ objIdx < Len(CurTask.ids)
    /\ \E deleteErr \in {"", "delete failed"} :
          LET id == CurTask.ids[objIdx + 1]
              r == PruneOne(id, pruneFilters,
                            PruneOpts(options.DryRunStrategy,
                                      options.PrunePropagationPolicy, FALSE),
                            deleteErr)
          IN
          /\ Send(r.event)
          /\ deleteCalls' = deleteCalls \o r.deletes
          /\ cluster' = IF r.removed THEN cluster \ {id} ELSE cluster
          /\ filterCalls' = filterCalls \o CallLog(objIdx + 1, r.calls)
          /\ applyFailed' = IF r.skipped \/ r.event.err # ""
                            THEN applyFailed \cup {id} ELSE applyFailed
    /\ objIdx' = objIdx + 1
    /\ UNCHANGED <<inputVars, status, planVars, pc, taskIdx, waitPending,
                   runnerErr, cancelled>>
    /\ UNCHANGED <<filterTestVars, printerVars, queryVars, storageVars, subscriptions>>

\* The runner turning to the next task while objects of the apply or prune
\* task are still to be handled.
TaskDone_Early ==
    /\ Running
    /\ SendDone
    /\ CurTask.kind \in {"Apply", "Prune"}
    /\ objIdx <= Len(CurTask.ids)
    /\ NextTaskVars(taskIdx + 1)
    /\ UNCHANGED <<inputVars, remoteVars, planVars, pc, applyFailed, filterCalls,
                   runnerErr, cancelled, chanVars>>
    /\ UNCHANGED <<filterTestVars, printerVars, queryVars, storageVars, subscriptions>>

\* An apply or prune task has handled all its objects: the runner turns to
\* the next task.
TaskDone ==
    /\ Running
    /\ SendDone
    /\ CurTask.kind \in {"Apply", "Prune"}
    /\ objIdx = Len(CurTask.ids)
    /\ NextTaskVars(taskIdx + 1)
    /\ UNCHANGED <<inputVars, remoteVars, planVars, pc, applyFailed, filterCalls,
                   runnerErr, cancelled, chanVars>>
    /\ UNCHANGED <<filterTestVars, printerVars, queryVars, storageVars, subscriptions>>

\* The status a wait task waits for.
WaitTarget(task) == IF task.cond = "AllCurrent" THEN "Current" ELSE "NotFound"

\* The outcome of waiting for an identifier whose status is st ("" while the
\* wait goes on).
WaitOutcome(task, st) ==
    IF st = WaitTarget(task) THEN "Reconciled"
    ELSE IF st = "Failed" THEN "ReconcileFailed"
    ELSE ""

\* One Wait event with outcome op for each identifier of ids that is in S,
\* in the order of ids.
RECURSIVE WaitEvents(_, _, _)
WaitEvents(ids, S, op) ==
    IF ids = <<>> THEN <<>>
    ELSE IF Head(ids) \in S THEN <<WaitEvent(Head(ids), op)>> \o WaitEvents(Tail(ids), S, op)
    ELSE WaitEvents(Tail(ids), S, op)

\* WaitTask.Start: the identifiers whose apply or prune failed or was skipped
\* are not waited for; when the context is already done, none is.
WaitStart ==
    /\ Running
    /\ CanSend
    /\ CurTask.kind = "Wait"
    /\ objIdx = 0
    /\ objIdx' = 1
    /\ SendAll(WaitEvents(CurTask.ids, waitPending \cap applyFailed, "ReconcileSkipped")
               \o (IF cancelled
                   THEN WaitEvents(CurTask.ids, waitPending \ applyFailed, "Cancelled")
                   ELSE <<>>))
    /\ waitPending' = IF cancelled THEN {} ELSE waitPending \ applyFailed
    /\ UNCHANGED <<inputVars, remoteVars, planVars, pc, taskIdx, applyFailed, filterCalls,
                   runnerErr, cancelled>>
    /\ UNCHANGED <<filterTestVars, printerVars, queryVars, storageVars, subscriptions>>

\* The statuses the poller may report next for id.
NextStatuses(id) ==
    IF id \in cluster
    THEN IF status[id] \in {"Unknown", "NotFound"} THEN {"Current", "Failed"} ELSE {}
    ELSE IF status[id] # "NotFound" THEN {"NotFound"} ELSE {}

\* The status poller reports a change for an identifier the current wait task
\* waits for: the runner records it, forwards it as a Status event when asked
\* to, and resolves the identifier when the status is terminal.  (Changes of
\* identifiers no task waits for do not affect the run and are left out.)
StatusUpdate ==
    /\ Running
    /\ CanSend
    /\ CurTask.kind = "Wait"
    /\ objIdx = 1
    /\ \E id \in allIds \cap waitPending : \E st \in NextStatuses(id) :
          /\ status' = [status EXCEPT ![id] = st]
          /\ SendAll((IF options.EmitStatusEvents THEN <<StatusEvent(id, st)>> ELSE <<>>)
                     \o (IF WaitOutcome(CurTask, st) # ""
                         THEN <<WaitEvent(id, WaitOutcome(CurTask, st))>>
                         ELSE <<>>))
          /\ waitPending' = IF WaitOutcome(CurTask, st) # ""
                            THEN waitPending \ {id} ELSE waitPending
    /\ UNCHANGED <<inputVars, cluster, deleteCalls, planVars, pc, taskIdx, objIdx,
                   applyFailed, filterCalls, runnerErr, cancelled>>
    /\ UNCHANGED <<filterTestVars, printerVars, queryVars, storageVars, subscriptions>>

\* A timeout that ends the run: the runner returns it as an error.
WaitTimeout_Fatal ==
    /\ Running
    /\ CanSend
    /\ CurTask.kind = "Wait"
    /\ objIdx = 1
    /\ waitPending # {}
    /\ SendAll(WaitEvents(CurTask.ids, waitPending, "ReconcileTimeout")
               \o <<handleError("timeout waiting for the resources")>>)
    /\ waitPending' = {}
    /\ runnerErr' = "timeout waiting for the resources"
    /\ pc' = "closing"
    /\ UNCHANGED <<inputVars, remoteVars, planVars, taskIdx, objIdx, applyFailed,
                   filterCalls, cancelled>>
    /\ UNCHANGED <<filterTestVars, printerVars, queryVars, storageVars, subscriptions>>

\* WaitTask: the group's timeout elapses; the unresolved identifiers get the
\* Timeout outcome.
WaitTimeout ==
    /\ Running
    /\ CanSend
    /\ CurTask.kind = "Wait"
    /\ objIdx = 1
    /\ waitPending # {}
    /\ SendAll(WaitEvents(CurTask.ids, waitPending, "ReconcileTimeout"))
    /\ waitPending' = {}
    /\ UNCHANGED <<inputVars, remoteVars, planVars, pc, taskIdx, objIdx, applyFailed,
                   filterCalls, runnerErr, cancelled>>
    /\ UNCHANGED <<filterTestVars, printerVars, queryVars, storageVars, subscriptions>>

\* WaitTask: no identifier is left to wait for.
WaitDone ==
    /\ Running
    /\ SendDone
    /\ CurTask.kind = "Wait"
    /\ objIdx = 1
    /\ waitPending = {}
    /\ NextTaskVars(taskIdx + 1)
    /\ UNCHANGED <<inputVars, remoteVars, planVars, pc, applyFailed, filterCalls,
                   runnerErr, cancelled, chanVars>>
    /\ UNCHANGED <<filterTestVars, printerVars, queryVars, storageVars, subscriptions>>

\* Cancellation that ends the run: the runner returns at once.
Cancel_AbortsRun ==
    /\ Running
    /\ CanSend
    /\ ~cancelled
    /\ cancelled' = TRUE
    /\ pc' = "closing"
    /\ UNCHANGED <<inputVars, remoteVars, planVars, taskIdx, objIdx, waitPending,
                   applyFailed, filterCalls, runnerErr, chanVars>>
    /\ UNCHANGED <<filterTestVars, printerVars, queryVars, storageVars, subscriptions>>

\* The caller cancels the context (or its deadline expires): a wait under way
\* ends, its unresolved identifiers get the Cancelled outcome.
Cancel ==
    /\ Running
    /\ CanSend
    /\ ~cancelled
    /\ cancelled' = TRUE
    /\ IF CurTask.kind = "Wait" /\ objIdx = 1
       THEN /\ SendAll(WaitEvents(CurTask.ids, waitPending, "Cancelled"))
            /\ waitPending' = {}
       ELSE UNCHANGED <<waitPending, chanVars>>
    /\ UNCHANGED <<inputVars, remoteVars, planVars, pc, taskIdx, objIdx, applyFailed,
                   filterCalls, runnerErr>>
    /\ UNCHANGED <<filterTestVars, printerVars, queryVars, storageVars, subscriptions>>

\* runner.Run returns nil: every task of the queue has completed.
RunnerReturn ==
    /\ pc = "runner"
    /\ taskIdx = Len(taskQueue)
    /\ SendDone
    /\ pc' = "closing"
    /\ UNCHANGED <<inputVars, remoteVars, planVars, runnerVars, cancelled, chanVars>>
    /\ UNCHANGED <<filterTestVars, printerVars, queryVars, storageVars, subscriptions>>

\* The goroutine returns after an explicit close(eventChannel): the deferred
\* close runs on the closed channel.
Close_Twice ==
    /\ pc = "closing"
    /\ SendDone
    /\ closeCount' = closeCount + 2
    /\ pc' = "done"
    /\ UNCHANGED <<chan, chanCap, received, sentOnClosed>>
    /\ UNCHANGED <<inputVars, remoteVars, planVars, runnerVars, cancelled>>
    /\ UNCHANGED <<filterTestVars, printerVars, queryVars, storageVars, subscriptions>>

\* The goroutine returns: the deferred close(eventChannel) runs.
Close ==
    /\ pc = "closing"
    /\ SendDone
    /\ closeCount' = closeCount + 1
    /\ pc' = "done"
    /\ UNCHANGED <<chan, chanCap, received, sentOnClosed>>
    /\ UNCHANGED <<inputVars, remoteVars, planVars, runnerVars, cancelled>>
    /\ UNCHANGED <<filterTestVars, printerVars, queryVars, storageVars, subscriptions>>

Next ==
    \/ RunCall
    \/ Prepare
    \/ BuildQueue
    \/ SendInit
    \/ InvTask
    \/ ApplyObj
    \/ PruneObj
    \/ TaskDone
    \/ WaitStart
    \/ WaitTimeout
    \/ WaitDone
    \/ StatusUpdate
    \/ Cancel
    \/ RunnerReturn
    \/ Close
    \/ Drain

Spec == RunInit /\ [][Next]_vars

\* The caller drains the stream, the goroutines are scheduled, and a wait
\* task's timeout is finite; the poller need not report anything and the
\* caller need not cancel.
Progress ==
    \/ RunCall
    \/ Prepare
    \/ BuildQueue
    \/ SendInit
    \/ InvTask
    \/ ApplyObj
    \/ PruneObj
    \/ TaskDone
    \/ WaitStart
    \/ WaitTimeout
    \/ WaitDone
    \/ RunnerReturn
    \/ Close
    \/ Drain

\* Termination does not depend on whether status events are forwarded: the
\* runs that do not forward them.
FairInit == RunInit /\ ~options.EmitStatusEvents

FairSpec == FairInit /\ [][Next]_vars /\ WF_vars(Progress)

(***************************************************************************)
(* The prune harness: TestPrune and TestPruneWithErrors of prune_test.go   *)
(* call PruneOptions.Prune with a candidate list, a filter chain and       *)
(* options, on a buffered channel they read once Prune has returned.       *)
(***************************************************************************)

HarnessObjs == {namespace, pod, preventDelete, thirdmap, pdbDeleteFailure}

HarnessFilters ==
    {PreventRemoveFilter,
     CurrentUIDFilter({"pod-uid"}),
     LocalNamespacesFilter({<<"a">>}),
     InventoryPolicyFilter(testInventoryLabel, "MustMatch"),
     StubFilter(FALSE, ""),
     StubFilter(FALSE, "filter error")}

HarnessOptions ==
    {PruneOpts(d, "Background", destroy) : d \in {"None", "Client", "Server"},
                                          destroy \in BOOLEAN}

\* Sequences over S of length at most n.
SeqsUpTo(S, n) == UNION {[1..k -> S] : k \in 0..n}

NoDuplicates(q) == \A i, j \in DOMAIN q : i # j => q[i] # q[j]

PruneInit ==
    /\ pruneObjs \in {q \in SeqsUpTo(HarnessObjs, MaxPruneObjs) : NoDuplicates(q)}
    /\ pruneFilters \in SeqsUpTo(HarnessFilters, MaxFilters)
    /\ options \in HarnessOptions
    /\ chanCap = Len(pruneObjs) + 1
    /\ cluster = SeqToSet(pruneObjs)
    /\ clusterInv = SeqToSet(pruneObjs)
    /\ invInfo = Inv(<<"a">>, "Label", testInventoryLabel)
    /\ objects = {}
    /\ deleteCalls = <<>>
    /\ status = [id \in AllObjs |-> "Unknown"]
    /\ pc = "prune"
    /\ applyObjs = <<>>
    /\ taskQueue = <<>>
    /\ taskIdx = 0
    /\ objIdx = 0
    /\ waitPending = {}
    /\ applyFailed = {}
    /\ filterCalls = <<>>
    /\ runnerErr = ""
    /\ cancelled = FALSE
    /\ chan = <<>>
    /\ received = <<>>
    /\ closeCount = 0
    /\ sentOnClosed = FALSE
    /\ subscriptions = <<>>
    /\ FilterTestIdle /\ PrinterIdle /\ QueryIdle /\ StorageIdle

\* Prune returning at the first delete that fails.
HarnessPrune_StopOnDeleteFailure ==
    /\ pc = "prune"
    /\ objIdx < Len(pruneObjs)
    /\ CanSend
    /\ LET id == pruneObjs[objIdx + 1]
           r == PruneOne(id, pruneFilters, options, FakeDelete(id))
       IN
       /\ Send(r.event)
       /\ deleteCalls' = deleteCalls \o r.deletes
       /\ cluster' = IF r.removed THEN cluster \ {id} ELSE cluster
       /\ filterCalls' = filterCalls \o CallLog(objIdx + 1, r.calls)
       /\ objIdx' = IF ~r.skipped /\ r.event.err # "" THEN Len(pruneObjs) ELSE objIdx + 1
    /\ UNCHANGED <<inputVars, status, planVars, pc, taskIdx, waitPending, applyFailed,
                   runnerErr, cancelled>>
    /\ UNCHANGED <<filterTestVars, printerVars, queryVars, storageVars, subscriptions>>

\* po.Prune(tc.pruneObjs, tc.pruneFilters, taskContext, tc.options), one
\* candidate of its loop.
HarnessPrune ==
    /\ pc = "prune"
    /\ objIdx < Len(pruneObjs)
    /\ CanSend
    /\ LET id == pruneObjs[objIdx + 1]
           r == PruneOne(id, pruneFilters, options, FakeDelete(id))
       IN
       /\ Send(r.event)
       /\ deleteCalls' = deleteCalls \o r.deletes
       /\ cluster' = IF r.removed THEN cluster \ {id} ELSE cluster
       /\ filterCalls' = filterCalls \o CallLog(objIdx + 1, r.calls)
    /\ objIdx' = objIdx + 1
    /\ UNCHANGED <<inputVars, status, planVars, pc, taskIdx, waitPending, applyFailed,
                   runnerErr, cancelled>>
    /\ UNCHANGED <<filterTestVars, printerVars, queryVars, storageVars, subscriptions>>

\* Prune returns and the deferred close(eventChannel) runs.
HarnessReturn ==
    /\ pc = "prune"
    /\ objIdx = Len(pruneObjs)
    /\ pc' = "pruned"
    /\ closeCount' = closeCount + 1
    /\ UNCHANGED <<chan, chanCap, received, sentOnClosed>>
    /\ UNCHANGED <<inputVars, remoteVars, planVars, runnerVars, cancelled>>
    /\ UNCHANGED <<filterTestVars, printerVars, queryVars, storageVars, subscriptions>>

PruneNext ==
    \/ HarnessPrune
    \/ HarnessReturn
    \/ Drain

PruneSpec == PruneInit /\ [][PruneNext]_vars

(***************************************************************************)
(* The inventory-policy filters, called the way                            *)
(* TestInventoryPolicyApplyFilter calls the apply-side one: a filter for   *)
(* an inventory id and a policy is handed an object whose owning-inventory *)
(* annotation is objInventoryID.                                           *)
(***************************************************************************)

\* Nothing of an applier run is going on.
ApplierIdle ==
    /\ invInfo = NilInv
    /\ objects = {}
    /\ options = [ReconcileTimeout |-> 0, PollInterval |-> 0,
                  EmitStatusEvents |-> FALSE, NoPrune |-> TRUE,
                  DryRunStrategy |-> "None", PrunePropagationPolicy |-> "",
                  PruneTimeout |-> 0, InventoryPolicy |-> "MustMatch"]
    /\ clusterInv = {}
    /\ cluster = {}
    /\ deleteCalls = <<>>
    /\ status = [id \in AllObjs |-> "Unknown"]
    /\ pc = "idle"
    /\ applyObjs = <<>>
    /\ pruneObjs = <<>>
    /\ pruneFilters = <<>>
    /\ taskQueue = <<>>
    /\ taskIdx = 0
    /\ objIdx = 0
    /\ waitPending = {}
    /\ applyFailed = {}
    /\ filterCalls = <<>>
    /\ runnerErr = ""
    /\ cancelled = FALSE
    /\ subscriptions = <<>>

applierVars == <<inputVars, remoteVars, planVars, runnerVars, pc, cancelled, subscriptions>>

\* No event channel is in use.
ChannelIdle ==
    /\ chan = <<>>
    /\ chanCap = 0
    /\ received = <<>>
    /\ closeCount = 0
    /\ sentOnClosed = FALSE

InventoryIDs == {"foo", "bar", "baz"}
ObjInventoryIDs == {"", "foo", "bar"}
InventoryPolicies == {"MustMatch", "AdoptIfNoInventory", "AdoptAll"}

\* The table of TestInventoryPolicyApplyFilter.
TestCase(inventoryID, objInventoryID, policy, filtered, isError) ==
    [inventoryID |-> inventoryID, objInventoryID |-> objInventoryID,
     policy |-> policy, filtered |-> filtered, isError |-> isError]

testCases ==
    {TestCase("foo", "foo", "MustMatch", FALSE, FALSE),
     TestCase("foo", "foo", "AdoptIfNoInventory", FALSE, FALSE),
     TestCase("foo", "bar", "MustMatch", TRUE, TRUE),
     TestCase("foo", "bar", "AdoptIfNoInventory", TRUE, TRUE),
     TestCase("foo", "bar", "AdoptAll", FALSE, FALSE),
     TestCase("foo", "", "AdoptAll", FALSE, FALSE),
     TestCase("foo", "", "MustMatch", TRUE, TRUE)}

NoVerdict == [called |-> FALSE]

FilterTestInit ==
    /\ tc \in [inventoryID : InventoryIDs, objInventoryID : ObjInventoryIDs,
               policy : InventoryPolicies]
    /\ pruneVerdict = NoVerdict
    /\ applyVerdict = NoVerdict
    /\ ApplierIdle /\ ChannelIdle /\ PrinterIdle /\ QueryIdle /\ StorageIdle

\* filter.Filter(obj) on the prune-side filter.
CallInventoryPolicyFilter ==
    /\ pruneVerdict = NoVerdict
    /\ pruneVerdict' = InventoryPolicyFilter_Filter(
                            InventoryPolicyFilter(tc.inventoryID, tc.policy),
                            defaultObj(tc.objInventoryID))
    /\ UNCHANGED <<tc, applyVerdict>>
    /\ UNCHANGED <<applierVars, storageVars, chanVars, printerVars, queryVars>>

\* filter.Filter(obj) on the apply-side filter.
CallInventoryPolicyApplyFilter ==
    /\ applyVerdict = NoVerdict
    /\ applyVerdict' = InventoryPolicyApplyFilter_Filter(
                            InventoryPolicyApplyFilter(tc.inventoryID, tc.policy),
                            defaultObj(tc.objInventoryID))
    /\ UNCHANGED <<tc, pruneVerdict>>
    /\ UNCHANGED <<applierVars, storageVars, chanVars, printerVars, queryVars>>

FilterTestNext ==
    \/ CallInventoryPolicyFilter
    \/ CallInventoryPolicyApplyFilter

FilterTestSpec == FilterTestInit /\ [][FilterTestNext]_vars

(***************************************************************************)
(* The table printer (pkg/printers/table).  Its resourceStateCollector     *)
(* keeps one resourceInfo per planned identifier; a resourceInfo points to *)
(* its ResourceStatus, so the status objects live in a heap and a record   *)
(* holds an index into it.  Errors are sequences of message parts, nil the *)
(* empty one.                                                              *)
(***************************************************************************)

\* Events the test sends after the Init event, and queries made by callers
\* of LatestState and Stats.
MaxEvents == 2
MaxQueries == 2

\* deploymentIdentifier of PrintResultErrorTest: Deployment foo in namespace bar.
deploymentIdentifier ==
    ObjMeta("apps", "Deployment", <<"b", "a", "r">>, <<"f", "o", "o">>)

\* An event.ValidationEvent: the identifiers, the error and what the error
\* unwraps to (the error itself unless it is a *validation.Error).
ValidationEvent(ids, err, cause) ==
    [type |-> "Validation", id |-> NoId, op |-> "", err |-> err, groups |-> <<>>,
     ids |-> ids, cause |-> cause]

\* The characters of identifiers, in byte order.
CharOrder ==
    <<" ", "A", "B", "C", "D", "E", "F", "G", "H", "I", "J", "K", "L", "M", "N",
      "O", "P", "Q", "R", "S", "T", "U", "V", "W", "X", "Y", "Z",
      "a", "b", "c", "d", "e", "f", "g", "h", "i", "j", "k", "l", "m", "n",
      "o", "p", "q", "r", "s", "t", "u", "v", "w", "x", "y", "z">>

Rank(c) == CHOOSE i \in DOMAIN CharOrder : CharOrder[i] = c

\* Go's a < b on strings, the strings given as sequences of characters.
RECURSIVE StrLess(_, _)
StrLess(a, b) ==
    IF b = <<>> THEN FALSE
    ELSE IF a = <<>> THEN TRUE
    ELSE IF Head(a) = Head(b) THEN StrLess(Tail(a), Tail(b))
    ELSE Rank(Head(a)) < Rank(Head(b))

\* The characters of the group and kind names in use.
Chars(s) ==
    CASE s = "" -> <<>>
      [] s = "apps" -> <<"a", "p", "p", "s">>
      [] s = "policy" -> <<"p", "o", "l", "i", "c", "y">>
      [] s = "Pod" -> <<"P", "o", "d">>
      [] s = "Deployment" -> <<"D", "e", "p", "l", "o", "y", "m", "e", "n", "t">>
      [] s = "Namespace" -> <<"N", "a", "m", "e", "s", "p", "a", "c", "e">>
      [] s = "ConfigMap" -> <<"C", "o", "n", "f", "i", "g", "M", "a", "p">>
      [] s = "PodDisruptionBudget" ->
            <<"P", "o", "d", "D", "i", "s", "r", "u", "p", "t", "i", "o", "n",
              "B", "u", "d", "g", "e", "t">>

\* pe.ResourceStatus
ResourceStatus(id, st, msg) == [Identifier |-> id, Status |-> st, Message |-> msg]

\* A resourceInfo whose result fields have their zero values.
resourceInfo(id, ptr, action) ==
    [identifier |-> id, resourceStatus |-> ptr, ResourceAction |-> action,
     Error |-> "", ApplyOpResult |-> "ApplyUnspecified",
     PruneOpResult |-> "PruneUnspecified", DeleteOpResult |-> "DeleteUnspecified",
     WaitOpResult |-> "ReconcilePending"]

\* A collector without records.
EmptyCollector == [resourceInfos |-> [id \in {} |-> id], heap |-> <<>>, err |-> <<>>]

\* m[k] = v
Put(m, k, v) == [x \in DOMAIN m \cup {k} |-> IF x = k THEN v ELSE m[x]]

\* The inner loop of newResourceStateCollector.
RECURSIVE AddIdentifiers(_, _, _)
AddIdentifiers(r, action, ids) ==
    IF ids = <<>> THEN r
    ELSE LET heap == Append(r.heap, ResourceStatus(Head(ids), "Unknown", ""))
             info == resourceInfo(Head(ids), Len(heap), action)
         IN AddIdentifiers([r EXCEPT !.resourceInfos = Put(@, Head(ids), info),
                                     !.heap = heap],
                           action, Tail(ids))

\* The outer loop of newResourceStateCollector: wait groups are passed over.
RECURSIVE AddGroups(_, _)
AddGroups(r, groups) ==
    IF groups = <<>> THEN r
    ELSE IF Head(groups).action = "Wait" THEN AddGroups(r, Tail(groups))
    ELSE AddGroups(AddIdentifiers(r, Head(groups).action, Head(groups).ids),
                   Tail(groups))

\* The outer loop without the test for wait groups.
RECURSIVE AddEveryGroup(_, _)
AddEveryGroup(r, groups) ==
    IF groups = <<>> THEN r
    ELSE AddEveryGroup(AddIdentifiers(r, Head(groups).action, Head(groups).ids),
                       Tail(groups))

\* newResourceStateCollector that makes records for the wait groups too.
newResourceStateCollector_WithWait(resourceGroups) ==
    AddEveryGroup(EmptyCollector, resourceGroups)

newResourceStateCollector(resourceGroups) == AddGroups(EmptyCollector, resourceGroups)

\* The loop of processValidationEvent.
RECURSIVE MarkInvalid(_, _, _)
MarkInvalid(r, ids, msg) ==
    IF ids = <<>> THEN r
    ELSE IF Head(ids) \notin DOMAIN r.resourceInfos THEN MarkInvalid(r, Tail(ids), msg)
    ELSE LET heap == Append(r.heap, ResourceStatus(Head(ids), "Invalid", msg))
         IN MarkInvalid([r EXCEPT !.resourceInfos[Head(ids)].resourceStatus = Len(heap),
                                  !.heap = heap],
                        Tail(ids), msg)

\* processValidationEvent without the check of the identifier list.
processValidationEvent_NoCheck(r, e) ==
    [r |-> MarkInvalid(r, e.ids, e.err), err |-> <<>>]

\* processValidationEvent that also resets the Error of the records it marks.
processValidationEvent_ClearsError(r, e) ==
    IF Len(e.ids) = 0
    THEN [r |-> r, err |-> <<"invalid validation event: no identifiers", e.cause>>]
    ELSE LET marked == MarkInvalid(r, e.ids, e.err)
         IN [r |-> [marked EXCEPT !.resourceInfos =
                        [id \in DOMAIN @ |->
                            IF id \in SeqToSet(e.ids) THEN [@[id] EXCEPT !.Error = ""]
                            ELSE @[id]]],
             err |-> <<>>]

\* processValidationEvent: the new collector state and the error returned.
processValidationEvent(r, e) ==
    IF Len(e.ids) = 0
    THEN [r |-> r, err |-> <<"invalid validation event: no identifiers", e.cause>>]
    ELSE [r |-> MarkInvalid(r, e.ids, e.err), err |-> <<>>]

\* processStatusEvent overwriting the status object the record points to.
processStatusEvent_InPlace(r, e) ==
    IF e.id \notin DOMAIN r.resourceInfos THEN r
    ELSE [r EXCEPT !.heap[r.resourceInfos[e.id].resourceStatus] =
                        ResourceStatus(e.id, e.op, "")]

\* processStatusEvent: the record is pointed to the status object the event
\* carries (e.PollResourceInfo), an object of its own.
processStatusEvent(r, e) ==
    IF e.id \notin DOMAIN r.resourceInfos THEN r
    ELSE LET heap == Append(r.heap, ResourceStatus(e.id, e.op, ""))
         IN [r EXCEPT !.resourceInfos[e.id].resourceStatus = Len(heap),
                      !.heap = heap]

\* processApplyEvent that drops the event's error.
processApplyEvent_NoError(r, e) ==
    IF e.id \notin DOMAIN r.resourceInfos THEN r
    ELSE [r EXCEPT !.resourceInfos[e.id].ApplyOpResult = e.op]

processApplyEvent(r, e) ==
    IF e.id \notin DOMAIN r.resourceInfos THEN r
    ELSE [r EXCEPT !.resourceInfos[e.id].Error = IF e.err # "" THEN e.err ELSE @,
                   !.resourceInfos[e.id].ApplyOpResult = e.op]

\* processPruneEvent storing the event's error whether there is one or not.
processPruneEvent_Overwrite(r, e) ==
    IF e.id \notin DOMAIN r.resourceInfos THEN r
    ELSE [r EXCEPT !.resourceInfos[e.id].Error = e.err,
                   !.resourceInfos[e.id].PruneOpResult = e.op]

processPruneEvent(r, e) ==
    IF e.id \notin DOMAIN r.resourceInfos THEN r
    ELSE [r EXCEPT !.resourceInfos[e.id].Error = IF e.err # "" THEN e.err ELSE @,
                   !.resourceInfos[e.id].PruneOpResult = e.op]

\* processWaitEvent making a record for an identifier it does not find.
processWaitEvent_AddsRecord(r, e) ==
    LET heap == Append(r.heap, ResourceStatus(e.id, "Unknown", ""))
        known == IF e.id \in DOMAIN r.resourceInfos THEN r
                 ELSE [r EXCEPT !.resourceInfos =
                                    Put(@, e.id, resourceInfo(e.id, Len(heap), "Wait")),
                                !.heap = heap]
    IN [known EXCEPT !.resourceInfos[e.id].WaitOpResult = e.op]

processWaitEvent(r, e) ==
    IF e.id \notin DOMAIN r.resourceInfos THEN r
    ELSE [r EXCEPT !.resourceInfos[e.id].WaitOpResult = e.op]

\* processEvent, between mux.Lock and mux.Unlock: the new collector state
\* and the error returned.  No case handles an event of another type.
processEvent(r, ev) ==
    CASE ev.type = "Validation" -> processValidationEvent(r, ev)
      [] ev.type = "Status" -> [r |-> processStatusEvent(r, ev), err |-> <<>>]
      [] ev.type = "Apply" -> [r |-> processApplyEvent(r, ev), err |-> <<>>]
      [] ev.type = "Prune" -> [r |-> processPruneEvent(r, ev), err |-> <<>>]
      [] ev.type = "Wait" -> [r |-> processWaitEvent(r, ev), err |-> <<>>]
      [] ev.type = "Error" -> [r |-> r, err |-> <<ev.err>>]
      [] OTHER -> [r |-> r, err |-> <<>>]

\* stats.Stats
ZeroStats ==
    [ApplyStats |-> [ServersideApplied |-> 0, Created |-> 0, Unchanged |-> 0,
                     Configured |-> 0, Failed |-> 0],
     PruneStats |-> [Pruned |-> 0, Skipped |-> 0, Failed |-> 0],
     DeleteStats |-> [Deleted |-> 0, Skipped |-> 0, Failed |-> 0],
     WaitStats |-> [Reconciled |-> 0, Timeout |-> 0, Failed |-> 0, Skipped |-> 0]]

ApplyStats_Inc(s, op) ==
    CASE op = "ServersideApplied" -> [s EXCEPT !.ApplyStats.ServersideApplied = @ + 1]
      [] op = "Created" -> [s EXCEPT !.ApplyStats.Created = @ + 1]
      [] op = "Unchanged" -> [s EXCEPT !.ApplyStats.Unchanged = @ + 1]
      [] op = "Configured" -> [s EXCEPT !.ApplyStats.Configured = @ + 1]
      [] OTHER -> s

PruneStats_Inc(s, op) ==
    CASE op = "Pruned" -> [s EXCEPT !.PruneStats.Pruned = @ + 1]
      [] op = "PruneSkipped" -> [s EXCEPT !.PruneStats.Skipped = @ + 1]
      [] OTHER -> s

DeleteStats_Inc(s, op) ==
    CASE op = "Deleted" -> [s EXCEPT !.DeleteStats.Deleted = @ + 1]
      [] op = "DeleteSkipped" -> [s EXCEPT !.DeleteStats.Skipped = @ + 1]
      [] OTHER -> s

WaitStats_Inc(s, op) ==
    CASE op = "Reconciled" -> [s EXCEPT !.WaitStats.Reconciled = @ + 1]
      [] op = "ReconcileSkipped" -> [s EXCEPT !.WaitStats.Skipped = @ + 1]
      [] op = "ReconcileTimeout" -> [s EXCEPT !.WaitStats.Timeout = @ + 1]
      [] op = "ReconcileFailed" -> [s EXCEPT !.WaitStats.Failed = @ + 1]
      [] OTHER -> s

\* The body of the loop of Stats without its last statement.
StatsVisit_NoWait(s, res) ==
    LET failed == res.Error # ""
    IN CASE res.ResourceAction = "Apply" ->
                ApplyStats_Inc(IF failed THEN [s EXCEPT !.ApplyStats.Failed = @ + 1] ELSE s,
                               res.ApplyOpResult)
         [] res.ResourceAction = "Prune" ->
                PruneStats_Inc(IF failed THEN [s EXCEPT !.PruneStats.Failed = @ + 1] ELSE s,
                               res.PruneOpResult)
         [] res.ResourceAction = "Delete" ->
                DeleteStats_Inc(IF failed THEN [s EXCEPT !.DeleteStats.Failed = @ + 1] ELSE s,
                                res.DeleteOpResult)
         [] OTHER -> s

\* The body of the loop of Stats, for the record res.
StatsVisit(s, res) ==
    LET failed == res.Error # ""
        acted ==
            CASE res.ResourceAction = "Apply" ->
                    ApplyStats_Inc(IF failed THEN [s EXCEPT !.ApplyStats.Failed = @ + 1] ELSE s,
                                   res.ApplyOpResult)
              [] res.ResourceAction = "Prune" ->
                    PruneStats_Inc(IF failed THEN [s EXCEPT !.PruneStats.Failed = @ + 1] ELSE s,
                                   res.PruneOpResult)
              [] res.ResourceAction = "Delete" ->
                    DeleteStats_Inc(IF failed THEN [s EXCEPT !.DeleteStats.Failed = @ + 1] ELSE s,
                                    res.DeleteOpResult)
              [] OTHER -> s
    IN WaitStats_Inc(acted, res.WaitOpResult)

RECURSIVE StatsOver(_, _, _)
StatsOver(s, infos, ids) ==
    IF ids = {} THEN s
    ELSE LET id == CHOOSE x \in ids : TRUE
         IN StatsOver(StatsVisit(s, infos[id]), infos, ids \ {id})

\* resourceStateCollector.Stats, called while nothing else runs.
Stats(r) == StatsOver(ZeroStats, r.resourceInfos, DOMAIN r.resourceInfos)

FailedActuationSum(s) == s.ApplyStats.Failed + s.PruneStats.Failed + s.DeleteStats.Failed
FailedReconciliationSum(s) == s.WaitStats.Failed + s.WaitStats.Timeout

\* The record LatestState makes of ri: every field but Error is copied.
CopyInfo(ri) == [ri EXCEPT !.Error = ""]

\* ResourceInfos.Less comparing the names first.
Less_NameFirst(gi, gj) ==
    LET idI == gi.identifier
        idJ == gj.identifier
    IN IF idI.name # idJ.name THEN StrLess(idI.name, idJ.name)
       ELSE IF idI.namespace # idJ.namespace THEN StrLess(idI.namespace, idJ.namespace)
       ELSE IF idI.group # idJ.group THEN StrLess(Chars(idI.group), Chars(idJ.group))
       ELSE StrLess(Chars(idI.kind), Chars(idJ.kind))

\* ResourceInfos.Less
Less(gi, gj) ==
    LET idI == gi.identifier
        idJ == gj.identifier
    IN IF idI.namespace # idJ.namespace THEN StrLess(idI.namespace, idJ.namespace)
       ELSE IF idI.group # idJ.group THEN StrLess(Chars(idI.group), Chars(idJ.group))
       ELSE IF idI.kind # idJ.kind THEN StrLess(Chars(idI.kind), Chars(idJ.kind))
       ELSE StrLess(idI.name, idJ.name)

RECURSIVE InsertSorted(_, _)
InsertSorted(g, x) ==
    IF g = <<>> THEN <<x>>
    ELSE IF Less(x, Head(g)) THEN <<x>> \o g
    ELSE <<Head(g)>> \o InsertSorted(Tail(g), x)

\* sort.Sort(resourceInfos)
RECURSIVE SortInfos(_)
SortInfos(g) ==
    IF g = <<>> THEN <<>> ELSE InsertSorted(SortInfos(Tail(g)), Head(g))

ResourceState(infos, err) == [resourceInfos |-> infos, err |-> err]

(***************************************************************************)
(* PrintResultErrorTest: the test sends an Init event and more events on   *)
(* an unbuffered channel and closes it, while Print runs in a goroutine.   *)
(* Print makes the collector from the Init event and lets it listen.       *)
(***************************************************************************)

ActionGroup(name, action, ids) == [name |-> name, action |-> action, ids |-> ids]

\* The plans of the Init events: the test's own (one Deployment applied and
\* waited for), one that also prunes, one of a destroy run, and one as Run
\* builds it, with the groups of the inventory tasks.
PrintPlans ==
    {<<ActionGroup("apply-1", "Apply", <<deploymentIdentifier>>),
       ActionGroup("wait-1", "Wait", <<deploymentIdentifier>>)>>,
     <<ActionGroup("inventory-add-0", "InventoryAdd", <<deploymentIdentifier>>),
       ActionGroup("apply-0", "Apply", <<deploymentIdentifier>>),
       ActionGroup("wait-0", "Wait", <<deploymentIdentifier>>),
       ActionGroup("prune-0", "Prune", <<pod>>),
       ActionGroup("inventory-set-0", "InventorySet", <<>>)>>,
     <<ActionGroup("apply-1", "Apply", <<deploymentIdentifier>>),
       ActionGroup("wait-1", "Wait", <<deploymentIdentifier>>),
       ActionGroup("prune-1", "Prune", <<pod>>),
       ActionGroup("wait-2", "Wait", <<pod>>)>>,
     <<ActionGroup("delete-1", "Delete", <<pod>>)>>}

\* The plans of the runs whose collector is queried while it listens.
QueryPlans ==
    {<<ActionGroup("apply-1", "Apply", <<deploymentIdentifier, pdb>>),
       ActionGroup("wait-1", "Wait", <<deploymentIdentifier, pdb>>)>>,
     <<ActionGroup("prune-1", "Prune", <<pod, thirdmap>>)>>}

\* Every event the test has sent or is sending, in order.
HarnessSent == received \o chan

\* The plan of the run: the groups of the Init event.
Plan == IF HarnessSent = <<>> THEN <<>> ELSE HarnessSent[1].groups

GroupsOf(plan, actions) == {i \in DOMAIN plan : plan[i].action \in actions}

\* The identifiers of the groups of plan with one of the actions.
IdsOf(plan, actions) == UNION {SeqToSet(plan[i].ids) : i \in GroupsOf(plan, actions)}

\* The outcome events of one object, as the tasks send them: a failure comes
\* with the unspecified operation.
OutcomeEvents(action, id) ==
    CASE action = "Apply" ->
            {ApplyEvent(id, "Created", ""), ApplyEvent(id, "ApplyUnspecified", "apply failed")}
      [] action = "Prune" ->
            {PruneEvent(id, "Pruned", ""), PruneEvent(id, "PruneUnspecified", "prune failed")}
      [] action = "Delete" ->
            {DeleteEvent(id, "Deleted", ""), DeleteEvent(id, "DeleteSkipped", ""),
             DeleteEvent(id, "DeleteUnspecified", "delete failed")}

WaitOperations == {"Reconciled", "ReconcileSkipped", "ReconcileTimeout", "ReconcileFailed"}

\* Identifiers an event of one of the types was already sent for.
Outcomes(sent, types) == {sent[i].id : i \in {j \in DOMAIN sent : sent[j].type \in types}}

\* An object that is in no plan.
unplanned == namespaceB

\* The events the test may send next for a plan: one outcome event and one
\* wait event for each planned object, status events, events naming an
\* object outside the plan, validation events and a fatal error.
TestEvents(plan, sent) ==
    UNION {UNION {OutcomeEvents(plan[i].action, id) :
                    id \in SeqToSet(plan[i].ids) \ Outcomes(sent, {"Apply", "Prune", "Delete"})} :
             i \in GroupsOf(plan, {"Apply", "Prune", "Delete"})}
    \cup {WaitEvent(id, op) : id \in IdsOf(plan, {"Wait"}) \ Outcomes(sent, {"Wait"}),
                              op \in WaitOperations}
    \cup {StatusEvent(id, "Current") : id \in IdsOf(plan, {"Apply", "Prune", "Delete"})}
    \cup {ApplyEvent(unplanned, "Created", ""), PruneEvent(unplanned, "Pruned", ""),
          DeleteEvent(unplanned, "Deleted", ""), WaitEvent(unplanned, "Reconciled"),
          StatusEvent(unplanned, "Current")}
    \cup {ValidationEvent(<<>>, "invalid object: missing name", "missing name"),
          ValidationEvent(<<unplanned>>, "unknown kind", "unknown kind"),
          ValidationEvent(<<unplanned, plan[1].ids[1]>>, "invalid object: missing name",
                          "missing name")}
    \cup {handleError("fatal")}

\* The events sent to a collector that is queried meanwhile: a status of the
\* plan's first object and the outcomes of its first two.
QueryEvents(plan) ==
    LET ids == plan[1].ids
    IN IF plan[1].action = "Apply"
       THEN {StatusEvent(ids[1], "Current"), ApplyEvent(ids[1], "Created", ""),
             ApplyEvent(ids[2], "Configured", "")}
       ELSE {StatusEvent(ids[1], "Current"), PruneEvent(ids[1], "Pruned", ""),
             PruneEvent(ids[2], "PruneSkipped", "")}

\* The errors Print may return.
NoErr == [kind |-> "nil", err |-> <<>>, Stats |-> ZeroStats]
FatalError(err) == [kind |-> "error", err |-> err, Stats |-> ZeroStats]
ResultError(s) == [kind |-> "ResultError", err |-> <<>>, Stats |-> s]

NoEvent == Ev("", NoId, "", "", <<>>)

PrintInit ==
    /\ ApplierIdle /\ ChannelIdle /\ FilterTestIdle /\ StorageIdle
    /\ printPc = "waitInit"
    /\ printErr = NoErr
    /\ collector = EmptyCollector
    /\ listenerPc = "none"
    /\ listenerEv = NoEvent
    /\ completed = [msgs |-> <<>>, closed |-> FALSE]
    /\ QueryIdle

\* eventChannel <- e, for the first event of the test case.
HarnessSendInit(plans) ==
    /\ HarnessSent = <<>>
    /\ closeCount = 0
    /\ \E p \in plans : Send(InitEvent(p))
    /\ UNCHANGED <<applierVars, storageVars, filterTestVars, printerVars, queryVars>>

\* eventChannel <- e, for a later event: the previous send has completed.
HarnessSend(events) ==
    /\ Len(HarnessSent) \in 1..MaxEvents
    /\ closeCount = 0
    /\ CanSend
    /\ \E e \in events : Send(e)
    /\ UNCHANGED <<applierVars, storageVars, filterTestVars, printerVars, queryVars>>

\* close(eventChannel)
HarnessClose ==
    /\ HarnessSent # <<>>
    /\ closeCount = 0
    /\ SendDone
    /\ closeCount' = 1
    /\ UNCHANGED <<chan, chanCap, received, sentOnClosed>>
    /\ UNCHANGED <<applierVars, storageVars, filterTestVars, printerVars, queryVars>>

\* Print receives the Init event, makes the collector and calls Listen.
PrintReceiveInit ==
    /\ printPc = "waitInit"
    /\ chan # <<>>
    /\ received' = Append(received, Head(chan))
    /\ chan' = Tail(chan)
    /\ collector' = newResourceStateCollector(Head(chan).groups)
    /\ printPc' = "listening"
    /\ listenerPc' = "range"
    /\ UNCHANGED <<chanCap, closeCount, sentOnClosed, printErr, listenerEv, completed>>
    /\ UNCHANGED <<applierVars, storageVars, filterTestVars, queryVars>>

\* for ev := range eventChannel: the next event is received.
ListenerReceive ==
    /\ listenerPc = "range"
    /\ chan # <<>>
    /\ received' = Append(received, Head(chan))
    /\ chan' = Tail(chan)
    /\ listenerEv' = Head(chan)
    /\ listenerPc' = "lock"
    /\ UNCHANGED <<chanCap, closeCount, sentOnClosed, printPc, printErr, collector,
                   completed>>
    /\ UNCHANGED <<applierVars, storageVars, filterTestVars, queryVars>>

\* r.processEvent(ev): mux.Lock waits until no read lock is held.  After an
\* error the result is sent on completed, which Print is receiving from, and
\* the goroutine returns, closing completed.
ListenerProcess ==
    /\ listenerPc = "lock"
    /\ mux = 0
    /\ LET res == processEvent(collector, listenerEv)
       IN /\ collector' = res.r
          /\ IF res.err # <<>>
             THEN /\ completed' = [msgs |-> <<res.err>>, closed |-> TRUE]
                  /\ listenerPc' = "exited"
             ELSE /\ listenerPc' = "range"
                  /\ UNCHANGED completed
    /\ UNCHANGED <<printPc, printErr, listenerEv>>
    /\ UNCHANGED <<applierVars, storageVars, chanVars, filterTestVars, queryVars>>

\* The range loop ends when the channel is closed and empty; completed is
\* closed.
ListenerExit ==
    /\ listenerPc = "range"
    /\ chan = <<>>
    /\ closeCount > 0
    /\ listenerPc' = "exited"
    /\ completed' = [completed EXCEPT !.closed = TRUE]
    /\ UNCHANGED <<printPc, printErr, collector, listenerEv>>
    /\ UNCHANGED <<applierVars, storageVars, chanVars, filterTestVars, queryVars>>

\* Print has read completed to its close: it returns the listener's error,
\* or a ResultError with the Stats when something failed, or nil.
PrintReturn ==
    /\ printPc = "listening"
    /\ completed.closed
    /\ printPc' = "returned"
    /\ printErr' =
          IF completed.msgs # <<>> THEN FatalError(completed.msgs[Len(completed.msgs)])
          ELSE LET s == Stats(collector)
               IN IF FailedActuationSum(s) > 0 \/ FailedReconciliationSum(s) > 0
                  THEN ResultError(s)
                  ELSE NoErr
    /\ UNCHANGED <<collector, listenerPc, listenerEv, completed>>
    /\ UNCHANGED <<applierVars, storageVars, chanVars, filterTestVars, queryVars>>

PrintNext ==
    \/ HarnessSendInit(PrintPlans)
    \/ HarnessSend(TestEvents(Plan, HarnessSent))
    \/ HarnessClose
    \/ PrintReceiveInit
    \/ ListenerReceive
    \/ ListenerProcess
    \/ ListenerExit
    \/ PrintReturn

PrintSpec == PrintInit /\ [][PrintNext]_vars

(***************************************************************************)
(* Callers of LatestState and Stats while the collector listens.           *)
(* LatestState holds a read lock from its first statement to its return;   *)
(* Stats takes no lock.  Both walk the map of records in an order of the   *)
(* runtime's choosing.                                                     *)
(***************************************************************************)

\* Events the listener has finished processing.
NumProcessed ==
    IF received = <<>> THEN 0
    ELSE IF listenerPc = "lock" THEN Len(received) - 2
    ELSE Len(received) - 1

NoAcc == [infos |-> <<>>, stats |-> ZeroStats]

\* What a caller reads through a ResourceState: the records with the status
\* objects they point to.
View(heap, infos) ==
    [i \in DOMAIN infos |-> [infos[i] EXCEPT !.resourceStatus = heap[@]]]

QueryInit ==
    /\ ApplierIdle /\ ChannelIdle /\ FilterTestIdle /\ StorageIdle
    /\ printPc = "waitInit"
    /\ printErr = NoErr
    /\ collector = EmptyCollector
    /\ listenerPc = "none"
    /\ listenerEv = NoEvent
    /\ completed = [msgs |-> <<>>, closed |-> FALSE]
    /\ mux = 0
    /\ queryPc = "idle"
    /\ queryVisited = {}
    /\ queryAcc = NoAcc
    /\ queryFrom = 0
    /\ queries = <<>>

\* LatestState is called: r.mux.RLock()
LatestStateStart ==
    /\ queryPc = "idle"
    /\ printPc # "waitInit"
    /\ Len(queries) < MaxQueries
    /\ mux' = mux + 1
    /\ queryPc' = "LatestState"
    /\ queryFrom' = NumProcessed
    /\ UNCHANGED <<queryVisited, queryAcc, queries>>
    /\ UNCHANGED <<applierVars, storageVars, chanVars, filterTestVars, printerVars>>

\* One round of the loop of LatestState.
LatestStateCopy ==
    /\ queryPc = "LatestState"
    /\ \E id \in DOMAIN collector.resourceInfos \ queryVisited :
          /\ queryAcc' = [queryAcc EXCEPT
                             !.infos = Append(@, CopyInfo(collector.resourceInfos[id]))]
          /\ queryVisited' = queryVisited \cup {id}
    /\ UNCHANGED <<mux, queryPc, queryFrom, queries>>
    /\ UNCHANGED <<applierVars, storageVars, chanVars, filterTestVars, printerVars>>

\* The loop of LatestState is done: the copies are sorted, the read lock is
\* released and the ResourceState returned.  view is what the caller read
\* through it at that moment.
LatestStateReturn ==
    /\ queryPc = "LatestState"
    /\ queryVisited = DOMAIN collector.resourceInfos
    /\ queries' = Append(queries,
                         [kind |-> "LatestState",
                          result |-> ResourceState(SortInfos(queryAcc.infos), collector.err),
                          view |-> View(collector.heap, SortInfos(queryAcc.infos)),
                          stats |-> ZeroStats,
                          from |-> queryFrom, to |-> NumProcessed])
    /\ mux' = mux - 1
    /\ queryPc' = "idle"
    /\ queryVisited' = {}
    /\ queryAcc' = NoAcc
    /\ UNCHANGED queryFrom
    /\ UNCHANGED <<applierVars, storageVars, chanVars, filterTestVars, printerVars>>

\* Stats is called.
StatsStart ==
    /\ queryPc = "idle"
    /\ printPc # "waitInit"
    /\ Len(queries) < MaxQueries
    /\ queryPc' = "Stats"
    /\ queryFrom' = NumProcessed
    /\ UNCHANGED <<mux, queryVisited, queryAcc, queries>>
    /\ UNCHANGED <<applierVars, storageVars, chanVars, filterTestVars, printerVars>>

\* One round of the loop of Stats.
StatsLoop ==
    /\ queryPc = "Stats"
    /\ \E id \in DOMAIN collector.resourceInfos \ queryVisited :
          /\ queryAcc' = [queryAcc EXCEPT
                             !.stats = StatsVisit(@, collector.resourceInfos[id])]
          /\ queryVisited' = queryVisited \cup {id}
    /\ UNCHANGED <<mux, queryPc, queryFrom, queries>>
    /\ UNCHANGED <<applierVars, storageVars, chanVars, filterTestVars, printerVars>>

\* The loop of Stats is done.
StatsReturn ==
    /\ queryPc = "Stats"
    /\ queryVisited = DOMAIN collector.resourceInfos
    /\ queries' = Append(queries,
                         [kind |-> "Stats",
                          result |-> ResourceState(<<>>, <<>>),
                          view |-> <<>>,
                          stats |-> queryAcc.stats,
                          from |-> queryFrom, to |-> NumProcessed])
    /\ queryPc' = "idle"
    /\ queryVisited' = {}
    /\ queryAcc' = NoAcc
    /\ UNCHANGED <<mux, queryFrom>>
    /\ UNCHANGED <<applierVars, storageVars, chanVars, filterTestVars, printerVars>>

QueryNext ==
    \/ HarnessSendInit(QueryPlans)
    \/ HarnessSend(QueryEvents(Plan))
    \/ HarnessClose
    \/ PrintReceiveInit
    \/ ListenerReceive
    \/ ListenerProcess
    \/ ListenerExit
    \/ PrintReturn
    \/ LatestStateStart
    \/ LatestStateCopy
    \/ LatestStateReturn
    \/ StatsStart
    \/ StatsLoop
    \/ StatsReturn

QuerySpec == QueryInit /\ [][QueryNext]_vars

(***************************************************************************)
(* Properties                                                              *)
(***************************************************************************)

\* Every event sent so far, in the order sent.
Sent == received \o chan

EventsOfType(q, t) == {i \in DOMAIN q : q[i].type = t}

\* prepareObjects has returned without an error and nothing has touched the
\* inventory yet.
Prepared == pc \in {"mapper", "sendInit"}

\* C1: the prune candidates prepareObjects returns are, as a set of
\* identifiers, exactly the previous inventory minus the desired set, each
\* once; so there is none iff the inventory is a subset of the desired set,
\* none when the inventory is empty, and the whole inventory when the
\* desired set is empty.
C1_PruneObjsAreSetDifference ==
    Prepared =>
        /\ SeqToSet(pruneObjs) = clusterInv \ objects
        /\ NoDuplicates(pruneObjs)
        /\ (pruneObjs = <<>>) <=> (clusterInv \subseteq objects)
        /\ clusterInv = {} => pruneObjs = <<>>
        /\ objects = {} => SeqToSet(pruneObjs) = clusterInv

C1_Witness ==
    /\ Prepared
    /\ pruneObjs # <<>>
    /\ clusterInv \cap objects # {}
    /\ objects \ clusterInv # {}

\* C2 as claimed: in every run the first event delivered is an Init event
\* and exactly one Init event is emitted.
C2_Original ==
    /\ received # <<>> => received[1].type = "Init"
    /\ pc = "done" => Cardinality(EventsOfType(Sent, "Init")) = 1

\* C2, amended: when prepareObjects and ToRESTMapper succeed (the task queue
\* is built), the first event delivered is an Init event carrying the action
\* groups of the built queue and it is the only Init event of the run; when
\* one of them fails, no Init event is emitted at all.
C2_InitFirstWhenPrepared ==
    /\ \A i \in DOMAIN Sent :
          Sent[i].type = "Init" =>
              i = 1 /\ taskQueue # <<>> /\ Sent[i].groups = ToActionGroups(taskQueue)
    /\ (taskQueue # <<>> /\ Sent # <<>>) => Sent[1].type = "Init"
    /\ (taskQueue # <<>> /\ pc \in {"runner", "closing", "done"}) =>
          Cardinality(EventsOfType(Sent, "Init")) = 1
    /\ (taskQueue = <<>> /\ pc = "done") => EventsOfType(Sent, "Init") = {}

C2_Witness ==
    /\ pc = "done"
    /\ Len(received) > 2
    /\ received[1].type = "Init"
    /\ Len(received[1].groups) = 6

\* C3: the channel is closed at most once, and only by the goroutine's
\* deferred close once the runner has returned or a fatal error has been
\* reported and received; no event is sent on the closed channel.
C3_ClosedOnceAfterTheEnd ==
    /\ closeCount <= 1
    /\ ~sentOnClosed
    /\ closeCount = 1 =>
          /\ pc = "done"
          /\ chan = <<>>
          /\ \/ taskQueue # <<>> /\ taskIdx = Len(taskQueue) /\ runnerErr = ""
             \/ received # <<>> /\ received[Len(received)].type = "Error"
    /\ pc = "done" => closeCount = 1

C3_Witness ==
    /\ closeCount = 1
    /\ taskQueue # <<>>
    /\ taskIdx = Len(taskQueue)
    /\ Len(received) > 3

\* An Error event reported before the runner was started.
FatalBeforeExecution ==
    /\ EventsOfType(Sent, "Error") # {}
    /\ runnerErr = ""

\* C4: when prepareObjects or ToRESTMapper fails, no task is executed
\* (nothing is applied, nothing deleted, the inventory is untouched), the
\* Error event is the only event of the run, and the goroutine goes on to
\* close the channel.
C4_FatalBeforeExecution ==
    FatalBeforeExecution =>
        /\ pc \in {"closing", "done"}
        /\ taskQueue = <<>>
        /\ taskIdx = 0
        /\ deleteCalls = <<>>
        /\ cluster = clusterInv
        /\ Len(Sent) = 1
        /\ pc = "done" => closeCount = 1 /\ Len(received) = 1

C4_Witness ==
    /\ FatalBeforeExecution
    /\ pc = "done"
    /\ applyObjs # <<>>
    /\ received = <<handleError("cannot get the REST mapper")>>

\* C5: an Error event is the last event of the stream, so at most one is
\* emitted and no other event follows it; once it is sent the goroutine only
\* closes the channel.
C5_ErrorIsLast ==
    \A i \in DOMAIN Sent :
        Sent[i].type = "Error" => i = Len(Sent) /\ pc \in {"closing", "done"}

C5_Witness ==
    /\ pc = "done"
    /\ Len(received) > 3
    /\ received[Len(received)].type = "Error"
    /\ received[1].type = "Init"

\* The identifiers that have an outcome event of type t among the events q.
Reported(q, t) == {q[i].id : i \in EventsOfType(q, t)}

\* C6: with the caller draining the stream and every wait ended by
\* convergence or by its finite timeout, every run comes to its end with
\* the channel closed; and unless a fatal error ended it, every task of the
\* queue has been executed and every object of the apply group and every
\* prune candidate has its outcome event, whatever apply or delete failed.
C6_RunTerminates ==
    /\ <>(pc = "done" /\ closeCount = 1 /\ chan = <<>>)
    /\ []((pc = "done" /\ EventsOfType(received, "Error") = {}) =>
            /\ taskIdx = Len(taskQueue)
            /\ Reported(received, "Apply") = SeqToSet(applyObjs)
            /\ ~options.NoPrune => Reported(received, "Prune") = SeqToSet(pruneObjs))

C6_Witness ==
    /\ pc = "done"
    /\ EventsOfType(received, "Error") = {}
    /\ Len(applyObjs) = 2
    /\ applyObjs[1] \in applyFailed
    /\ applyObjs[2] \notin applyFailed
    /\ pruneObjs # <<>>
    /\ \E i \in EventsOfType(received, "Prune") : received[i].err # ""

\* The identifiers a delete call has been issued for.
DeletedIds == {deleteCalls[i].id : i \in DOMAIN deleteCalls}

\* The prevent-removal filter is in the chain handed to Prune.
HasPreventRemoveFilter == \E k \in DOMAIN pruneFilters : pruneFilters[k] = PreventRemoveFilter

\* The filter k of the chain lets the candidate id through.
Passes(k, id) == Filter(pruneFilters[k], id) = FilterResult(FALSE, "")

\* The event is the "skipped" outcome of the mode Prune runs in.
IsSkippedEvent(e, id) ==
    /\ e.id = id
    /\ e.type = (IF options.Destroy THEN "Delete" ELSE "Prune")
    /\ e.op = (IF options.Destroy THEN "DeleteSkipped" ELSE "PruneSkipped")

\* C7: with the prevent-removal filter in the chain, a candidate carrying
\* on-remove: keep gets PruneSkipped (DeleteSkipped under destroy), no delete
\* call is issued for it and it stays in the cluster; every other candidate of
\* the call that no filter rejects is still pruned: it gets its Pruned /
\* Deleted outcome (the delete error if the client fails) and, unless the run
\* is a client dry-run, its delete call.
C7_KeepOnRemoveNeverDeleted ==
    HasPreventRemoveFilter =>
        \A i \in 1..objIdx :
            LET id == pruneObjs[i] IN
            IF <<OnRemoveAnnotation, OnRemoveKeep>> \in AnnotationsOf(id)
            THEN /\ IsSkippedEvent(Sent[i], id)
                 /\ id \notin DeletedIds
                 /\ id \in cluster
            ELSE (\A k \in DOMAIN pruneFilters : Passes(k, id)) =>
                    /\ Sent[i].id = id
                    /\ Sent[i].type = (IF options.Destroy THEN "Delete" ELSE "Prune")
                    /\ Sent[i].op \in {"Pruned", "Deleted", "PruneUnspecified", "DeleteUnspecified"}
                    /\ Sent[i].err = "" <=> Sent[i].op \in {"Pruned", "Deleted"}
                    /\ options.DryRunStrategy # "Client" => id \in DeletedIds
                    /\ (options.DryRunStrategy = "None" /\ Sent[i].err = "") => id \notin cluster

C7_Witness ==
    /\ pc = "pruned"
    /\ options.Destroy
    /\ options.DryRunStrategy = "None"
    /\ pruneObjs = <<preventDelete, pod>>
    /\ pruneFilters = <<StubFilter(FALSE, ""), PreventRemoveFilter>>
    /\ received = <<DeleteEvent(preventDelete, "DeleteSkipped", ""),
                    DeleteEvent(pod, "Deleted", "")>>
    /\ cluster = {preventDelete}

\* C8: with the prevent-removal filter in the chain, a candidate carrying
\* client.lifecycle.config.k8s.io/deletion: detach is reported as "prune
\* skipped" (under destroy, "delete skipped"), no delete call names it, and it
\* is still in the cluster when Prune has returned.
C8_DetachNeverDeleted ==
    HasPreventRemoveFilter =>
        \A i \in 1..objIdx :
            <<LifecycleDeleteAnnotation, PreventDeletion>> \in AnnotationsOf(pruneObjs[i]) =>
                /\ IsSkippedEvent(Sent[i], pruneObjs[i])
                /\ \A j \in DOMAIN deleteCalls : deleteCalls[j].id # pruneObjs[i]
                /\ pc = "pruned" => pruneObjs[i] \in cluster

C8_Witness ==
    /\ pc = "pruned"
    /\ ~options.Destroy
    /\ options.DryRunStrategy = "None"
    /\ pruneObjs = <<pod, thirdmap>>
    /\ pruneFilters = <<PreventRemoveFilter>>
    /\ received = <<PruneEvent(pod, "Pruned", ""), PruneEvent(thirdmap, "PruneSkipped", "")>>
    /\ cluster = {thirdmap}
    /\ DeletedIds = {pod}

\* The namespace string as localNamespaces compares it.
Normalised(ns) == TrimSpace(ToLower(ns))

\* C9: the local-namespace set Run hands to its LocalNamespacesFilter holds
\* exactly the non-empty normalised namespaces of the desired objects and of
\* the inventory object (a cluster-scoped object adds nothing); and a
\* Namespace candidate whose name is in that set gets PruneSkipped, no delete
\* call, and stays in the cluster.
C9_LocalNamespacesNotPruned ==
    pruneFilters # <<>> =>
        LET ln == pruneFilters[Len(pruneFilters)].LocalNamespaces IN
        /\ pruneFilters[Len(pruneFilters)].type = "LocalNamespaces"
        /\ <<>> \notin ln
        /\ \A o \in objects : o.namespace # <<>> => Normalised(o.namespace) \in ln
        /\ Normalised(invInfo.namespace) # <<>> => Normalised(invInfo.namespace) \in ln
        /\ \A ns \in ln : \/ \E o \in objects : Normalised(o.namespace) = ns
                          \/ Normalised(invInfo.namespace) = ns
        /\ \A i \in DOMAIN Sent :
              (/\ Sent[i].type = "Prune"
               /\ Sent[i].id.group = ""
               /\ Sent[i].id.kind = "Namespace"
               /\ Sent[i].id.name \in ln) =>
                  /\ Sent[i].op = "PruneSkipped"
                  /\ Sent[i].id \notin DeletedIds
                  /\ Sent[i].id \in cluster

C9_Witness ==
    /\ pc = "done"
    /\ objects = {podUpper}
    /\ invInfo.namespace = <<"B", " ">>
    /\ pruneObjs = <<namespace, namespaceB>>
    /\ \E i \in DOMAIN received : received[i] = PruneEvent(namespace, "PruneSkipped", "")
    /\ \E i \in DOMAIN received : received[i] = PruneEvent(namespaceB, "PruneSkipped", "")
    /\ filterCalls = <<<<1, 1>>, <<1, 2>>, <<1, 3>>, <<2, 1>>, <<2, 2>>, <<2, 3>>>>
    /\ {namespace, namespaceB} \subseteq cluster
    /\ deleteCalls = <<>>

\* The filter k of the chain rejects the candidate id (skip or error).
Rejects(k, id) == ~Passes(k, id)

\* The first filter of the chain that rejects id; 0 when none does.
FirstRejecting(id) ==
    IF \E k \in DOMAIN pruneFilters : Rejects(k, id)
    THEN CHOOSE k \in DOMAIN pruneFilters :
            Rejects(k, id) /\ \A j \in 1..(k - 1) : ~Rejects(j, id)
    ELSE 0

\* The filter evaluations made for the i-th candidate, in the order made.
FilterCallsOf(i) == SelectSeq(filterCalls, LAMBDA c : c[1] = i)

\* C10: for every candidate handled, the filters evaluated are the filters of
\* the chain in the supplied order up to and including the first that
\* returns skip or an error (all of them when none does); when there is such
\* a filter the outcome is PruneSkipped / DeleteSkipped with that filter's
\* error, no delete call is issued and no later filter is evaluated; when
\* there is none the candidate is not reported as skipped.
C10_FirstRejectingFilterDecides ==
    \A i \in 1..objIdx :
        LET id == pruneObjs[i]
            first == FirstRejecting(id)
            last == IF first = 0 THEN Len(pruneFilters) ELSE first
        IN
        /\ FilterCallsOf(i) = [k \in 1..last |-> <<i, k>>]
        /\ first # 0 =>
              /\ IsSkippedEvent(Sent[i], id)
              /\ Sent[i].err = Filter(pruneFilters[first], id).err
              /\ id \notin DeletedIds
              /\ \A k \in (first + 1)..Len(pruneFilters) : <<i, k>> \notin SeqToSet(filterCalls)
        /\ first = 0 => ~IsSkippedEvent(Sent[i], id)

C10_Witness ==
    /\ pc = "pruned"
    /\ pruneObjs = <<pod, namespace>>
    /\ pruneFilters = <<CurrentUIDFilter({"pod-uid"}), StubFilter(FALSE, "filter error")>>
    /\ filterCalls = <<<<1, 1>>, <<2, 1>>, <<2, 2>>>>
    /\ received = <<PruneEvent(pod, "PruneSkipped", ""),
                    PruneEvent(namespace, "PruneSkipped", "filter error")>>
    /\ deleteCalls = <<>>

\* The tasks of the queue that belong to the apply phase: the apply tasks and
\* the wait tasks that wait for the applied objects to become current.
IsApplyPhase(t) == t.action = "Apply" \/ (t.action = "Wait" /\ t.cond = "AllCurrent")

\* Something of the prune phase has happened: a filter was evaluated for a
\* candidate, a delete call was issued, or a Prune / Delete event was sent.
PruneStarted ==
    \/ filterCalls # <<>>
    \/ deleteCalls # <<>>
    \/ EventsOfType(Sent, "Prune") # {}
    \/ EventsOfType(Sent, "Delete") # {}

\* C11: once anything of the prune phase has happened (a filter evaluated, a
\* delete call issued, a Prune or Delete event sent), every apply task and
\* its wait task has completed and every apply object has its Apply event;
\* and when NoPrune is set, the queue and the Init event have no Prune
\* group, nothing of the prune phase ever happens and every prune candidate
\* stays in the cluster.
C11_PruneAfterApplyAndOnlyIfEnabled ==
    /\ PruneStarted =>
          /\ \A k \in DOMAIN taskQueue : IsApplyPhase(taskQueue[k]) => k <= taskIdx
          /\ Reported(Sent, "Apply") = SeqToSet(applyObjs)
          /\ ~options.NoPrune
    /\ (options.NoPrune /\ taskQueue # <<>>) =>
          /\ \A k \in DOMAIN taskQueue : taskQueue[k].action # "Prune"
          /\ \A i \in EventsOfType(Sent, "Init") :
                \A g \in DOMAIN Sent[i].groups : Sent[i].groups[g].action # "Prune"
          /\ SeqToSet(pruneObjs) \subseteq cluster

C11_Witness ==
    /\ pc = "done"
    /\ ~options.NoPrune
    /\ options.ReconcileTimeout # 0
    /\ Len(applyObjs) = 2
    /\ deleteCalls # <<>>
    /\ \E i \in EventsOfType(received, "Wait") :
          /\ received[i].id \in SeqToSet(applyObjs)
          /\ \A j \in EventsOfType(received, "Prune") : i < j

\* The phase a task belongs to, in the fixed order of the plan.
PhaseOf(t) ==
    CASE t.action = "InventoryAdd" -> 1
      [] t.action = "Apply" -> 2
      [] t.action = "Wait" /\ t.cond = "AllCurrent" -> 3
      [] t.action = "Prune" -> 4
      [] t.action = "Wait" /\ t.cond = "AllNotFound" -> 5
      [] t.action = "InventorySet" -> 6
      [] OTHER -> 0

\* C12: whenever the queue is built, its first task is the InventoryAdd task,
\* its last the InventorySet task, and along the queue the phases only go
\* forward: InventoryAdd, apply, wait for the applied, prune, wait for the
\* pruned, InventorySet; the Init event lists the groups in that order.
C12_FixedPhaseOrder ==
    taskQueue # <<>> =>
        /\ taskQueue[1].action = "InventoryAdd"
        /\ taskQueue[Len(taskQueue)].action = "InventorySet"
        /\ \A k \in DOMAIN taskQueue : PhaseOf(taskQueue[k]) # 0
        /\ \A j, k \in DOMAIN taskQueue :
              j < k => PhaseOf(taskQueue[j]) < PhaseOf(taskQueue[k])
        /\ \A i \in EventsOfType(Sent, "Init") :
              [g \in DOMAIN Sent[i].groups |-> Sent[i].groups[g].action]
                  = [k \in DOMAIN taskQueue |-> taskQueue[k].action]

C12_Witness ==
    /\ pc = "runner"
    /\ Sent # <<>>
    /\ [k \in DOMAIN taskQueue |-> taskQueue[k].action]
          = <<"InventoryAdd", "Apply", "Wait", "Prune", "Wait", "InventorySet">>
    /\ applyObjs # <<>>
    /\ pruneObjs # <<>>

\* The action of the task an event of the runner belongs to: an Apply or
\* Prune event to the task that handles its object, a Wait or Status event
\* to the wait task that waits for it.
ActionOfEvent(e) ==
    CASE e.type = "Apply" -> "Apply"
      [] e.type \in {"Prune", "Delete"} -> "Prune"
      [] OTHER -> "Wait"

\* The tasks of the queue the event e belongs to.
TasksOfEvent(e) ==
    {k \in DOMAIN taskQueue :
        /\ taskQueue[k].action = ActionOfEvent(e)
        /\ e.id \in SeqToSet(taskQueue[k].ids)}

\* The events the runner's tasks send.
IsTaskEvent(e) == e.type \in {"Apply", "Prune", "Delete", "Wait", "Status"}

\* The events of the runner's tasks, in the order sent.
TaskEvents == SelectSeq(Sent, IsTaskEvent)

\* Every mutation call of the apply or prune task m has returned: each of its
\* objects has its outcome event.
AllReturned(m) ==
    \A id \in SeqToSet(taskQueue[m].ids) :
        \E h \in DOMAIN Sent :
            /\ Sent[h].id = id
            /\ Sent[h].type \in {"Apply", "Prune", "Delete"}
            /\ ActionOfEvent(Sent[h]) = taskQueue[m].action

\* C13: every event of the runner belongs to exactly one task of the queue;
\* the events appear in the order of their tasks; and once an event of a
\* task has been sent or a wait task runs, every mutation call of every
\* earlier apply or prune task has returned (its outcome event has been
\* sent, and by the order of the events it was sent before any event of a
\* later task), so a wait task sends nothing before all calls of its own
\* group have returned.
C13_GroupsInPlanOrder ==
    LET te == TaskEvents
        tasks == [i \in DOMAIN te |-> TasksOfEvent(te[i])]
    IN
    /\ \A i \in DOMAIN te : Cardinality(tasks[i]) = 1
    /\ \A i \in 1..(Len(te) - 1) : \A a \in tasks[i], b \in tasks[i + 1] : a <= b
    /\ te # <<>> =>
          \A k \in tasks[Len(te)] :
              \A m \in 1..(k - 1) :
                  taskQueue[m].action \in {"Apply", "Prune"} => AllReturned(m)
    /\ (Running /\ CurTask.kind = "Wait") =>
          \A m \in 1..taskIdx :
              taskQueue[m].action \in {"Apply", "Prune"} => AllReturned(m)

C13_Witness ==
    /\ pc = "done"
    /\ Len(taskQueue) = 6
    /\ Len(applyObjs) = 2
    /\ Len(pruneObjs) = 2
    /\ Len(received) = 9
    /\ [i \in 2..9 |-> received[i].type]
          = [i \in 2..9 |->
                IF i <= 3 THEN "Apply" ELSE IF i <= 5 THEN "Wait"
                ELSE IF i <= 7 THEN "Prune" ELSE "Wait"]

\* The events of type t sent for the identifier id.
EventsFor(t, id) == {i \in EventsOfType(Sent, t) : Sent[i].id = id}

\* C14: in a run whose context has been cancelled, a wait under way has no
\* identifier left to wait for; no object is applied or pruned twice and no
\* delete call is repeated; an object applied successfully is still in the
\* cluster and a pruned one is still gone; and unless the inventory could
\* not be stored (the Error event), the run ends with every task executed,
\* every apply object applied and, when pruning is enabled, every prune
\* candidate handled.
C14_CancelInterruptsOnlyWaiting ==
    cancelled =>
        /\ (Running /\ CurTask.kind = "Wait" /\ objIdx = 1) => waitPending = {}
        /\ \A id \in allIds :
              /\ Cardinality(EventsFor("Apply", id)) <= 1
              /\ Cardinality(EventsFor("Prune", id)) <= 1
              /\ Cardinality({j \in DOMAIN deleteCalls : deleteCalls[j].id = id}) <= 1
        /\ \A i \in EventsOfType(Sent, "Apply") : Sent[i].err = "" => Sent[i].id \in cluster
        /\ \A i \in EventsOfType(Sent, "Prune") : Sent[i].op = "Pruned" => Sent[i].id \notin cluster
        /\ (pc = "done" /\ EventsOfType(Sent, "Error") = {}) =>
              /\ taskIdx = Len(taskQueue)
              /\ \A id \in SeqToSet(applyObjs) : Cardinality(EventsFor("Apply", id)) = 1
              /\ ~options.NoPrune =>
                    \A id \in SeqToSet(pruneObjs) : Cardinality(EventsFor("Prune", id)) = 1

C14_Witness ==
    /\ pc = "done"
    /\ cancelled
    /\ EventsOfType(received, "Error") = {}
    /\ \E i \in EventsOfType(received, "Wait") :
          /\ received[i].op = "Cancelled"
          /\ received[i].id \in SeqToSet(applyObjs)
          /\ \E j \in EventsOfType(received, "Prune") : i < j /\ received[j].op = "Pruned"
    /\ deleteCalls # <<>>

\* The Wait events that report a timeout.
TimeoutEvents == {i \in EventsOfType(Sent, "Wait") : Sent[i].op = "ReconcileTimeout"}

\* C15: a timeout outcome is sent only for an identifier that has not reached
\* a terminal status of its wait task; when one is sent, every identifier
\* of that wait task has its wait outcome and the task waits for none, the
\* runner is still running or has returned; an Error event of such a run
\* comes from the inventory that could not be stored, never from the
\* timeout, and a run that ends without one has executed every task.
C15_TimeoutIsNotFatal ==
    \A i \in TimeoutEvents :
        /\ Cardinality(TasksOfEvent(Sent[i])) = 1
        /\ \A k \in TasksOfEvent(Sent[i]) :
              /\ status[Sent[i].id] \notin {WaitTarget(taskQueue[k]), "Failed"}
              /\ \A id \in SeqToSet(taskQueue[k].ids) : EventsFor("Wait", id) # {}
              /\ k > taskIdx => (k = taskIdx + 1 /\ waitPending = {})
        /\ pc \in {"runner", "closing", "done"}
        /\ EventsOfType(Sent, "Error") # {} => runnerErr = "cannot store the inventory"
        /\ (pc = "done" /\ runnerErr = "") =>
              /\ taskIdx = Len(taskQueue)
              /\ EventsOfType(Sent, "Error") = {}

C15_Witness ==
    /\ pc = "done"
    /\ runnerErr = ""
    /\ Len(applyObjs) = 2
    /\ \E i, j \in TimeoutEvents :
          /\ received[i].id = applyObjs[2]
          /\ received[j].id \in SeqToSet(pruneObjs)
          /\ \E h \in EventsOfType(received, "Prune") : i < h /\ h < j
    /\ \E i \in EventsOfType(received, "Wait") :
          received[i].id = applyObjs[1] /\ received[i].op = "Reconciled"
    /\ received[Len(received)].type = "Wait"

\* The task after the k-th is the wait task for the objects of the k-th,
\* waiting for the condition cond.
FollowedByWait(k, cond) ==
    /\ k < Len(taskQueue)
    /\ taskQueue[k + 1].action = "Wait"
    /\ taskQueue[k + 1].cond = cond
    /\ taskQueue[k + 1].ids = taskQueue[k].ids

\* The identifiers that have a Wait or Status event.
WaitedFor == Reported(Sent, "Wait") \cup Reported(Sent, "Status")

\* C16: in the built queue, with ReconcileTimeout zero there is no wait task
\* for the applied objects and none of them ever has a Wait (or Status)
\* event, and with a positive one every apply task is immediately followed
\* by the wait task for its objects; likewise PruneTimeout for the prune
\* tasks and the prune candidates.
C16_WaitPlannedIffTimeout ==
    taskQueue # <<>> =>
        /\ options.ReconcileTimeout = 0 =>
              /\ \A k \in DOMAIN taskQueue : PhaseOf(taskQueue[k]) # 3
              /\ WaitedFor \cap SeqToSet(applyObjs) = {}
        /\ options.ReconcileTimeout > 0 =>
              \A k \in DOMAIN taskQueue :
                  taskQueue[k].action = "Apply" => FollowedByWait(k, "AllCurrent")
        /\ options.PruneTimeout = 0 =>
              /\ \A k \in DOMAIN taskQueue : PhaseOf(taskQueue[k]) # 5
              /\ WaitedFor \cap SeqToSet(pruneObjs) = {}
        /\ options.PruneTimeout > 0 =>
              \A k \in DOMAIN taskQueue :
                  taskQueue[k].action = "Prune" => FollowedByWait(k, "AllNotFound")
        /\ \A k \in DOMAIN taskQueue :
              taskQueue[k].action = "Wait" =>
                  k > 1 /\ taskQueue[k - 1].action \in {"Apply", "Prune"}

C16_Witness ==
    /\ pc = "done"
    /\ options.ReconcileTimeout = 0
    /\ options.PruneTimeout > 0
    /\ [k \in DOMAIN taskQueue |-> taskQueue[k].action]
          = <<"InventoryAdd", "Apply", "Prune", "Wait", "InventorySet">>
    /\ applyObjs # <<>>
    /\ Reported(received, "Wait") = SeqToSet(pruneObjs)
    /\ Len(pruneObjs) = 2

\* Every filter of the chain lets the candidate through.
Unfiltered(id) == \A k \in DOMAIN pruneFilters : Passes(k, id)

\* The event is the successful outcome of the mode Prune runs in.
IsSuccessEvent(e, id) ==
    /\ e.id = id
    /\ e.type = (IF options.Destroy THEN "Delete" ELSE "Prune")
    /\ e.op = (IF options.Destroy THEN "Deleted" ELSE "Pruned")
    /\ e.err = ""

\* C17: under the Client dry-run strategy Prune issues no delete call and
\* every candidate no filter rejects gets its Pruned / Deleted event; under
\* Server every such candidate gets its delete call, every delete call
\* carries the dry-run flag, and the candidate gets its Pruned / Deleted
\* event when the call returns no error; under both no object leaves the
\* cluster.  Without dry-run no delete call carries the flag.
C17_DryRunStrategies ==
    /\ options.DryRunStrategy = "Client" =>
          /\ deleteCalls = <<>>
          /\ cluster = SeqToSet(pruneObjs)
          /\ \A i \in 1..objIdx :
                Unfiltered(pruneObjs[i]) => IsSuccessEvent(Sent[i], pruneObjs[i])
    /\ options.DryRunStrategy = "Server" =>
          /\ \A j \in DOMAIN deleteCalls : deleteCalls[j].dryRun
          /\ cluster = SeqToSet(pruneObjs)
          /\ \A i \in 1..objIdx :
                Unfiltered(pruneObjs[i]) =>
                    /\ pruneObjs[i] \in DeletedIds
                    /\ pruneObjs[i] # pdbDeleteFailure =>
                          IsSuccessEvent(Sent[i], pruneObjs[i])
    /\ options.DryRunStrategy = "None" =>
          \A j \in DOMAIN deleteCalls : ~deleteCalls[j].dryRun

C17_Witness ==
    /\ pc = "pruned"
    /\ options.DryRunStrategy = "Server"
    /\ options.Destroy
    /\ pruneObjs = <<pod, namespace>>
    /\ pruneFilters = <<>>
    /\ received = <<DeleteEvent(pod, "Deleted", ""), DeleteEvent(namespace, "Deleted", "")>>
    /\ Len(deleteCalls) = 2
    /\ deleteCalls[1] = [id |-> pod, dryRun |-> TRUE, propagation |-> "Background"]
    /\ cluster = {pod, namespace}

\* C18: a candidate no filter rejects whose delete call fails (the fake
\* client fails for pdbDeleteFailure) gets a Prune event, under destroy a
\* Delete event, with its identifier and the client's error, and stays in
\* the cluster; Prune goes on: it has sent one event for each candidate it
\* has come to, and returns only after the last candidate of the list.
C18_DeleteFailureIsPerObject ==
    /\ \A i \in 1..objIdx :
          (/\ pruneObjs[i] = pdbDeleteFailure
           /\ Unfiltered(pdbDeleteFailure)
           /\ options.DryRunStrategy # "Client") =>
              /\ i <= Len(Sent)
              /\ Sent[i].id = pdbDeleteFailure
              /\ Sent[i].type = (IF options.Destroy THEN "Delete" ELSE "Prune")
              /\ Sent[i].err = "expected delete error"
              /\ Sent[i].op \in {"PruneUnspecified", "DeleteUnspecified"}
              /\ pdbDeleteFailure \in cluster
    /\ Len(Sent) = objIdx
    /\ pc = "pruned" =>
          /\ objIdx = Len(pruneObjs)
          /\ Reported(Sent, "Prune") \cup Reported(Sent, "Delete") = SeqToSet(pruneObjs)

C18_Witness ==
    /\ pc = "pruned"
    /\ options.Destroy
    /\ options.DryRunStrategy = "None"
    /\ pruneObjs = <<pdbDeleteFailure, pod>>
    /\ pruneFilters = <<>>
    /\ received = <<DeleteEvent(pdbDeleteFailure, "DeleteUnspecified", "expected delete error"),
                    DeleteEvent(pod, "Deleted", "")>>
    /\ cluster = {pdbDeleteFailure}

\* C19: the events of a Prune call are one for each candidate Prune has come
\* to, for the candidates in the order of the list (none for the empty
\* list), and every one of them is a Delete event when Destroy is set and a
\* Prune event otherwise.
C19_OneEventPerCandidateInOrder ==
    /\ [i \in DOMAIN Sent |-> Sent[i].id] = SubSeq(pruneObjs, 1, objIdx)
    /\ \A i \in DOMAIN Sent :
          Sent[i].type = (IF options.Destroy THEN "Delete" ELSE "Prune")
    /\ pruneObjs = <<>> => Sent = <<>>
    /\ pc = "pruned" => Len(Sent) = Len(pruneObjs)

C19_Witness ==
    /\ pc = "pruned"
    /\ options.Destroy
    /\ pruneObjs = <<thirdmap, pod>>
    /\ pruneFilters = <<PreventRemoveFilter>>
    /\ Len(received) = 2
    /\ received[1].id = thirdmap /\ received[1].type = "Delete"
    /\ received[2].id = pod /\ received[2].type = "Delete"

\* The current-UID filters of the chain.
UIDFilters == {k \in DOMAIN pruneFilters : pruneFilters[k].type = "CurrentUID"}

\* C20: with a current-UID filter in the chain, a candidate whose live UID is
\* in the filter's set gets PruneSkipped (DeleteSkipped under destroy), no
\* delete call and stays in the cluster; a candidate of the same call whose
\* UID is not in the set and that no other filter rejects gets Pruned
\* (Deleted), unless its delete call fails.
C20_CurrentUIDSkipped ==
    \A k \in UIDFilters :
        \A i \in 1..objIdx :
            LET id == pruneObjs[i] IN
            IF UidOf(id) \in pruneFilters[k].CurrentUIDs
            THEN /\ IsSkippedEvent(Sent[i], id)
                 /\ id \notin DeletedIds
                 /\ id \in cluster
            ELSE (/\ \A j \in DOMAIN pruneFilters \ UIDFilters : Passes(j, id)
                  /\ \A j \in UIDFilters : UidOf(id) \notin pruneFilters[j].CurrentUIDs
                  /\ id # pdbDeleteFailure) =>
                     IsSuccessEvent(Sent[i], id)

C20_Witness ==
    /\ pc = "pruned"
    /\ ~options.Destroy
    /\ options.DryRunStrategy = "None"
    /\ pruneObjs = <<pod, namespace>>
    /\ pruneFilters = <<CurrentUIDFilter({"pod-uid"})>>
    /\ received = <<PruneEvent(pod, "PruneSkipped", ""), PruneEvent(namespace, "Pruned", "")>>
    /\ cluster = {pod}
    /\ DeletedIds = {namespace}

\* The cases in which the claim has the inventory-policy filter filter the
\* object of test case t.
MustBeFiltered(t) ==
    CASE t.policy = "MustMatch" -> t.objInventoryID # t.inventoryID
      [] t.policy = "AdoptIfNoInventory" ->
            t.objInventoryID # t.inventoryID /\ t.objInventoryID # ""
      [] OTHER -> FALSE

\* C21 as stated: whichever inventory-policy filter is called, the object is
\* filtered exactly in the cases above, and a filtered result comes with an
\* error.
C21_Original ==
    /\ pruneVerdict # NoVerdict =>
          /\ pruneVerdict.skip = MustBeFiltered(tc)
          /\ pruneVerdict.skip => pruneVerdict.err # ""
    /\ applyVerdict # NoVerdict =>
          /\ applyVerdict.skip = MustBeFiltered(tc)
          /\ applyVerdict.skip => applyVerdict.err # ""

\* C21 (amended): both inventory-policy filters filter an object exactly when
\* its owning-inventory id differs from the inventory's id and the policy does
\* not relax the match (MustMatch: a different or an empty id; AdoptIfNoInventory:
\* a different non-empty id; AdoptAll: never).  The prune-side filter
\* (InventoryPolicyFilter) never returns an error and has no reason; the
\* apply-side filter returns an error and a non-empty reason with every
\* filtered result, an empty reason and no error otherwise, and agrees with
\* the table of its test.
C21_PolicyFilterVerdicts ==
    /\ pruneVerdict # NoVerdict =>
          /\ pruneVerdict.skip = MustBeFiltered(tc)
          /\ pruneVerdict.err = ""
    /\ applyVerdict # NoVerdict =>
          /\ applyVerdict.skip = MustBeFiltered(tc)
          /\ applyVerdict.skip => applyVerdict.err # "" /\ applyVerdict.reason # ""
          /\ ~applyVerdict.skip => applyVerdict.err = "" /\ applyVerdict.reason = ""
          /\ \A t \in testCases :
                (/\ t.inventoryID = tc.inventoryID
                 /\ t.objInventoryID = tc.objInventoryID
                 /\ t.policy = tc.policy) =>
                    /\ t.filtered = applyVerdict.skip
                    /\ t.isError = (applyVerdict.err # "")

C21_Witness ==
    /\ tc = [inventoryID |-> "foo", objInventoryID |-> "", policy |-> "MustMatch"]
    /\ pruneVerdict = FilterResult(TRUE, "")
    /\ applyVerdict # NoVerdict
    /\ applyVerdict.skip /\ applyVerdict.err # ""

(***************************************************************************)
(* The table printer and its collector                                     *)
(***************************************************************************)

\* The events the listener has finished processing, in order.
Processed == SubSeq(received, 2, NumProcessed + 1)

AllActions == {"Apply", "Prune", "Delete", "Wait"}

\* Some record shows a failed operation or a failed or timed-out wait.
RunFailed(r) ==
    \E id \in DOMAIN r.resourceInfos :
        \/ /\ r.resourceInfos[id].ResourceAction \in {"Apply", "Prune", "Delete"}
           /\ r.resourceInfos[id].Error # ""
        \/ r.resourceInfos[id].WaitOpResult \in {"ReconcileFailed", "ReconcileTimeout"}

\* The Init event of PrintResultErrorTest.
TestInit ==
    InitEvent(<<ActionGroup("apply-1", "Apply", <<deploymentIdentifier>>),
                ActionGroup("wait-1", "Wait", <<deploymentIdentifier>>)>>)

CountEvents(type, actions, Test(_)) ==
    Cardinality({i \in DOMAIN Processed :
                    /\ Processed[i].type = type
                    /\ Processed[i].id \in IdsOf(Plan, actions)
                    /\ Test(Processed[i])})

\* C23: an Apply event with an error for an object planned for apply adds one
\* to Apply.Failed and nothing to the other apply counters, which count the
\* successful Apply events; a ReconcileSkipped Wait event for a planned object
\* adds one to Wait.Skipped; and after the failed apply and the skipped wait
\* of the test's single object the Stats are exactly {Apply.Failed = 1,
\* Wait.Skipped = 1}.
C23_FailedApplyCountedOnce ==
    printPc # "waitInit" =>
        LET st == Stats(collector)
            Failed(e) == e.err # ""
            Succeeded(e) == e.err = ""
            Skipped(e) == e.op = "ReconcileSkipped"
        IN /\ st.ApplyStats.Failed = CountEvents("Apply", {"Apply"}, Failed)
           /\ st.ApplyStats.ServersideApplied + st.ApplyStats.Created
                + st.ApplyStats.Unchanged + st.ApplyStats.Configured
                = CountEvents("Apply", {"Apply"}, Succeeded)
           /\ st.WaitStats.Skipped = CountEvents("Wait", {"Apply", "Prune", "Delete"}, Skipped)
           /\ Processed = <<ApplyEvent(deploymentIdentifier, "ApplyUnspecified", "apply failed"),
                            WaitEvent(deploymentIdentifier, "ReconcileSkipped")>>
                /\ received[1] = TestInit
                => st = [ZeroStats EXCEPT !.ApplyStats.Failed = 1, !.WaitStats.Skipped = 1]

C23_Witness ==
    /\ received = <<TestInit,
                    ApplyEvent(deploymentIdentifier, "ApplyUnspecified", "apply failed"),
                    WaitEvent(deploymentIdentifier, "ReconcileSkipped")>>
    /\ listenerPc = "range"
    /\ Stats(collector) = [ZeroStats EXCEPT !.ApplyStats.Failed = 1, !.WaitStats.Skipped = 1]

\* C24: once the listener has processed a Delete event for an object planned
\* in a Delete group, the object's record holds the event's operation and its
\* error, and the Stats count the object as deleted, skipped or failed.
C24_DeleteEventRecorded ==
    \A i \in DOMAIN Processed :
        (Processed[i].type = "Delete" /\ Processed[i].id \in IdsOf(Plan, {"Delete"})) =>
            /\ collector.resourceInfos[Processed[i].id].DeleteOpResult = Processed[i].op
            /\ collector.resourceInfos[Processed[i].id].Error = Processed[i].err
            /\ Stats(collector).DeleteStats.Deleted + Stats(collector).DeleteStats.Skipped
                  + Stats(collector).DeleteStats.Failed >= 1

\* C25: the channel Listen returns is closed only after the event channel
\* was closed and every event sent on it was processed; the goroutine has
\* exited only if the event channel is closed; and no send of the producer
\* is outstanding once the goroutine has exited.
C25_ListenerDrainsUntilClose ==
    /\ completed.closed =>
          /\ closeCount > 0
          /\ chan = <<>>
          /\ NumProcessed = Len(HarnessSent) - 1
    /\ listenerPc = "exited" => closeCount > 0
    /\ ~(listenerPc = "exited" /\ chan # <<>>)

\* The state of the collector after the first k events.
RECURSIVE ReplayEvents(_, _)
ReplayEvents(r, evs) ==
    IF evs = <<>> THEN r ELSE ReplayEvents(processEvent(r, Head(evs)).r, Tail(evs))

StateAfter(k) == ReplayEvents(newResourceStateCollector(Plan), SubSeq(received, 2, k + 1))

RECURSIVE CopyAll(_, _)
CopyAll(infos, ids) ==
    IF ids = {} THEN <<>>
    ELSE LET id == CHOOSE x \in ids : TRUE
         IN <<CopyInfo(infos[id])>> \o CopyAll(infos, ids \ {id})

\* What LatestState returns when nothing runs beside it.
LatestState(r) ==
    ResourceState(SortInfos(CopyAll(r.resourceInfos, DOMAIN r.resourceInfos)), r.err)

LatestStateQueries == {q \in DOMAIN queries : queries[q].kind = "LatestState"}

\* C26: every finished query, LatestState or Stats, returned what it would
\* have returned on the collector's state after some whole prefix of the
\* events, a prefix processed by the time the query returned and no shorter
\* than the one processed when it was called.
C26_QueriesSeePrefixStates ==
    \A q \in DOMAIN queries :
        \E k \in queries[q].from .. queries[q].to :
            LET r == StateAfter(k)
            IN IF queries[q].kind = "LatestState"
               THEN queries[q].view = View(r.heap, LatestState(r).resourceInfos)
               ELSE queries[q].stats = Stats(r)

\* C27: what is read through a ResourceState that LatestState returned
\* (identifier, status, action and the four operation results of each record)
\* stays what it was at the return, whatever events are processed later; and
\* a step of a query leaves the collector's records and status objects as
\* they are.
C27_SnapshotIsStable ==
    /\ [](\A q \in LatestStateQueries :
             View(collector.heap, queries[q].result.resourceInfos) = queries[q].view)
    /\ [][<<queryPc, queryVisited, queryAcc, queries>>' # <<queryPc, queryVisited, queryAcc, queries>>
             => collector' = collector]_vars

C27_Witness ==
    \E q \in LatestStateQueries :
        /\ queries[q].to < NumProcessed
        /\ View(collector.heap, LatestState(collector).resourceInfos) # queries[q].view
        /\ \E i \in DOMAIN Processed : i > queries[q].to /\ Processed[i].type = "Status"

\* The sort key of an identifier.
SortKey(id) == <<id.namespace, Chars(id.group), Chars(id.kind), id.name>>

\* a comes before b in the order by namespace, then group, then kind, then name.
KeyBefore(a, b) ==
    \E i \in 1..4 : (\A j \in 1..(i - 1) : a[j] = b[j]) /\ StrLess(a[i], b[i])

\* C28: the sequence LatestState returns has exactly one record for each
\* identifier of the plan, in increasing order of namespace, group, kind and
\* name; two calls with no event processed between them return the same
\* sequence.
C28_LatestStateSortedAndComplete ==
    /\ \A q \in LatestStateQueries :
          LET infos == queries[q].result.resourceInfos
          IN /\ {infos[i].identifier : i \in DOMAIN infos} = IdsOf(Plan, AllActions)
             /\ Len(infos) = Cardinality(IdsOf(Plan, AllActions))
             /\ \A i \in 1..(Len(infos) - 1) :
                   KeyBefore(SortKey(infos[i].identifier), SortKey(infos[i + 1].identifier))
    /\ \A p, q \in LatestStateQueries :
          (p < q /\ queries[p].to = queries[q].to) =>
              queries[p].result = queries[q].result

C28_Witness ==
    /\ Len(queries) = 2
    /\ LatestStateQueries = {1, 2}
    /\ queries[1].to = queries[2].to
    /\ Len(queries[1].result.resourceInfos) = 2
    /\ queries[1].result.resourceInfos[1].identifier = thirdmap

\* The identifiers an event names.
EventIds(ev) == IF ev.type = "Validation" THEN SeqToSet(ev.ids) ELSE {ev.id}

\* The record of id with the status object it points to.
RecordView(r, id) ==
    [r.resourceInfos[id] EXCEPT !.resourceStatus = r.heap[@]]

\* C29: processing an event leaves the set of records as it is and changes no
\* record of an identifier the event does not name; a status, apply, prune,
\* wait or validation event that names identifiers none of which has a record
\* leaves the collector as it is and reports no error.
C29_OnlyNamedRecordsChange ==
    [][listenerPc = "lock" =>
          /\ DOMAIN collector'.resourceInfos = DOMAIN collector.resourceInfos
          /\ \A id \in DOMAIN collector.resourceInfos :
                id \notin EventIds(listenerEv) =>
                    RecordView(collector', id) = RecordView(collector, id)
          /\ (/\ listenerEv.type \in {"Status", "Apply", "Prune", "Wait", "Validation"}
              /\ EventIds(listenerEv) # {}
              /\ EventIds(listenerEv) \cap DOMAIN collector.resourceInfos = {}) =>
                    /\ collector' = collector
                    /\ completed' = completed
                    /\ listenerPc' \in {"lock", "range"}]_vars

C29_Witness ==
    /\ listenerPc = "range"
    /\ unplanned \notin DOMAIN collector.resourceInfos
    /\ Processed = <<WaitEvent(unplanned, "Reconciled"),
                     ValidationEvent(<<unplanned>>, "unknown kind", "unknown kind")>>

PropagationPolicies == {"Background", "Foreground", "Orphan"}

AnyOptions ==
    [ReconcileTimeout : {0, 1},
     PollInterval : {0, 1, DefaultPollInterval, 5},
     EmitStatusEvents : BOOLEAN,
     NoPrune : BOOLEAN,
     DryRunStrategy : {"None", "Client", "Server"},
     PrunePropagationPolicy : {""} \cup PropagationPolicies,
     PruneTimeout : {0, 1},
     InventoryPolicy : InventoryPolicies]

DefaultsInit ==
    /\ options \in AnyOptions
    /\ invInfo = NilInv
    /\ objects = {}
    /\ clusterInv = {}
    /\ cluster = {}
    /\ deleteCalls = <<>>
    /\ status = [id \in AllObjs |-> "Unknown"]
    /\ pc = "new"
    /\ applyObjs = <<>>
    /\ pruneObjs = <<>>
    /\ pruneFilters = <<>>
    /\ taskQueue = <<>>
    /\ taskIdx = 0
    /\ objIdx = 0
    /\ waitPending = {}
    /\ applyFailed = {}
    /\ filterCalls = <<>>
    /\ runnerErr = ""
    /\ cancelled = FALSE
    /\ subscriptions = <<>>
    /\ ChannelIdle /\ FilterTestIdle /\ PrinterIdle /\ QueryIdle /\ StorageIdle

DefaultsNext == RunCall

DefaultsSpec == DefaultsInit /\ [][DefaultsNext]_vars

\* The options setDefaults does not look at.
OtherOptions ==
    {"ReconcileTimeout", "EmitStatusEvents", "NoPrune", "DryRunStrategy",
     "PruneTimeout", "InventoryPolicy"}

\* C31: setDefaults replaces a zero PollInterval by the default poll
\* interval and an empty PrunePropagationPolicy by Background, leaves every
\* option that was set as it was (a non-default propagation policy too), and
\* applying it to its result changes nothing.
C31_SetDefaults ==
    [][pc = "new" /\ pc' = "prepare" =>
          /\ options'.PollInterval =
                IF options.PollInterval = 0 THEN DefaultPollInterval
                ELSE options.PollInterval
          /\ options'.PrunePropagationPolicy =
                IF options.PrunePropagationPolicy = "" THEN "Background"
                ELSE options.PrunePropagationPolicy
          /\ \A f \in OtherOptions : options'[f] = options[f]
          /\ DOMAIN options' = DOMAIN options
          /\ setDefaults(options') = options']_vars

C31_Witness ==
    /\ pc = "prepare"
    /\ options.PollInterval = 5
    /\ options.PrunePropagationPolicy = "Orphan"
    /\ options.DryRunStrategy = "Server"

\* The identifiers of the groups of the plan with the given action.
PlannedFor(action) ==
    UNION {SeqToSet(taskQueue[k].ids) :
             k \in {j \in DOMAIN taskQueue : taskQueue[j].action = action}}

\* C32: in every run the objects to apply and the prune candidates are
\* disjoint and no desired object is a prune candidate; so no identifier is
\* in two action groups of the same action type (the two wait groups
\* included), and no object gets both an Apply and a Prune event.
C32_ApplyAndPruneDisjoint ==
    LET sent == Sent IN
    /\ SeqToSet(applyObjs) \cap SeqToSet(pruneObjs) = {}
    /\ objects \cap SeqToSet(pruneObjs) = {}
    /\ \A j, k \in DOMAIN taskQueue :
          (j < k /\ taskQueue[j].action = taskQueue[k].action) =>
              SeqToSet(taskQueue[j].ids) \cap SeqToSet(taskQueue[k].ids) = {}
    /\ PlannedFor("Apply") \cap PlannedFor("Prune") = {}
    /\ Reported(sent, "Apply") \cap Reported(sent, "Prune") = {}

C32_Witness ==
    /\ pc = "done"
    /\ objects \cap clusterInv # {}
    /\ Reported(received, "Apply") # {}
    /\ Reported(received, "Prune") # {}
    /\ Cardinality({k \in DOMAIN taskQueue : taskQueue[k].action = "Wait"}) = 2

\* The identifiers of the action groups of the plan.
PlanIds == UNION {SeqToSet(taskQueue[k].ids) : k \in DOMAIN taskQueue}

\* C33: the status poller is subscribed at most once in a run, when the
\* runner is started, and not at all before; the identifiers it is given are
\* exactly those of the apply set and of the prune candidates, which when
\* the runner starts is the desired set united with the inventory.  Every
\* identifier of the plan is among them, every Status event names one of
\* them, and when pruning is enabled they are exactly the identifiers of the
\* plan.
C33_SubscribedOnceForApplyAndPrune ==
    LET sent == Sent IN
    /\ Len(subscriptions) <= 1
    /\ pc \in {"new", "prepare", "mapper", "sendInit"} => subscriptions = <<>>
    /\ pc = "runner" => Len(subscriptions) = 1
    /\ \A i \in DOMAIN subscriptions :
          /\ subscriptions[i] = SeqToSet(applyObjs) \cup SeqToSet(pruneObjs)
          /\ (pc = "runner" /\ taskIdx = 0) => subscriptions[i] = objects \cup clusterInv
          /\ PlanIds \subseteq subscriptions[i]
          /\ ~options.NoPrune => subscriptions[i] = PlanIds
          /\ Reported(sent, "Status") \subseteq subscriptions[i]
    /\ subscriptions = <<>> => Reported(sent, "Status") = {}

C33_Witness ==
    /\ pc = "done"
    /\ Len(subscriptions) = 1
    /\ subscriptions[1] \cap SeqToSet(applyObjs) # {}
    /\ subscriptions[1] \cap SeqToSet(pruneObjs) # {}
    /\ Reported(received, "Status") \cap SeqToSet(pruneObjs) # {}
    /\ Reported(received, "Status") \cap SeqToSet(applyObjs) # {}

\* C34: processing a validation event that names identifiers gives every
\* named object that has a record the status Invalid with the message of the
\* event's error, and leaves the record's action, its apply, prune, delete
\* and wait results and its Error as they were; the listener goes on.
C34_ValidationMarksInvalid ==
    [][(/\ listenerPc = "lock"
        /\ listenerPc' # "lock"
        /\ listenerEv.type = "Validation"
        /\ listenerEv.ids # <<>>) =>
            /\ listenerPc' = "range"
            /\ completed' = completed
            /\ \A id \in SeqToSet(listenerEv.ids) \cap DOMAIN collector.resourceInfos :
                  RecordView(collector', id) =
                      [RecordView(collector, id) EXCEPT
                          !.resourceStatus = ResourceStatus(id, "Invalid", listenerEv.err)]]_vars

C34_Witness ==
    /\ listenerPc = "range"
    /\ Processed = <<ApplyEvent(deploymentIdentifier, "ApplyUnspecified", "apply failed"),
                     ValidationEvent(<<unplanned, deploymentIdentifier>>,
                                     "invalid object: missing name", "missing name")>>
    /\ RecordView(collector, deploymentIdentifier) =
          [resourceInfo(deploymentIdentifier,
                        ResourceStatus(deploymentIdentifier, "Invalid",
                                       "invalid object: missing name"),
                        "Apply")
             EXCEPT !.Error = "apply failed"]

\* Prune for the object of the filter test with the prune-side filter as the
\* only filter of the chain.
PruneTestObject(opts, deleteErr) ==
    PruneOne(defaultObj(tc.objInventoryID),
             <<InventoryPolicyFilter(tc.inventoryID, tc.policy)>>, opts, deleteErr)

LastGroupOf(plan, id) ==
    CHOOSE k \in DOMAIN plan :
        /\ plan[k].action # "Wait"
        /\ id \in SeqToSet(plan[k].ids)
        /\ \A j \in DOMAIN plan :
              (plan[j].action # "Wait" /\ id \in SeqToSet(plan[j].ids)) => j <= k

\* The identifiers of the groups of the plan that are not wait groups.
NonWaitIds(plan) ==
    UNION {SeqToSet(plan[k].ids) : k \in {j \in DOMAIN plan : plan[j].action # "Wait"}}

\* C36: from the moment the collector is made from the Init event it holds
\* one record for each identifier of the groups that are not wait groups and
\* no other record, whatever events are processed later; the record's action
\* is never Wait but that of the (last) group that is not a wait group and
\* lists the identifier; and before the first event is processed every
\* record has the status Unknown and no result.
C36_RecordsFollowThePlan ==
    printPc # "waitInit" =>
        /\ DOMAIN collector.resourceInfos = NonWaitIds(Plan)
        /\ \A id \in DOMAIN collector.resourceInfos :
              /\ collector.resourceInfos[id].identifier = id
              /\ collector.resourceInfos[id].ResourceAction # "Wait"
              /\ collector.resourceInfos[id].ResourceAction =
                    Plan[LastGroupOf(Plan, id)].action
              /\ NumProcessed = 0 /\ listenerPc # "exited" =>
                    RecordView(collector, id) =
                        resourceInfo(id, ResourceStatus(id, "Unknown", ""),
                                     Plan[LastGroupOf(Plan, id)].action)

C36_Witness ==
    /\ printPc = "listening"
    /\ Len(Plan) = 5
    /\ DOMAIN collector.resourceInfos = {deploymentIdentifier, pod}
    /\ collector.resourceInfos[deploymentIdentifier].ResourceAction = "Apply"
    /\ collector.resourceInfos[pod].ResourceAction = "Prune"
    /\ Processed = <<WaitEvent(deploymentIdentifier, "Reconciled"),
                     WaitEvent(unplanned, "Reconciled")>>

(***************************************************************************)
(* The table printer fed by a producer that reports an object more than    *)
(* once: a failed apply or prune may be followed by another outcome event  *)
(* for the same object.                                                    *)
(***************************************************************************)

\* The events such a producer may send for a plan: for every object planned
\* for apply or prune a successful and a failed outcome, any number of
\* times; wait, status and validation events for the planned objects.
RetryEvents(plan) ==
    UNION {UNION {OutcomeEvents(plan[i].action, id) : id \in SeqToSet(plan[i].ids)} :
             i \in GroupsOf(plan, {"Apply", "Prune"})}
    \cup {WaitEvent(id, op) : id \in IdsOf(plan, {"Wait"}),
                              op \in {"Reconciled", "ReconcileFailed"}}
    \cup {StatusEvent(id, "Current") : id \in IdsOf(plan, {"Apply", "Prune"})}
    \cup {ValidationEvent(<<id>>, "invalid object", "invalid object") :
             id \in IdsOf(plan, {"Apply", "Prune"})}

RetryNext ==
    \/ HarnessSendInit(PrintPlans)
    \/ HarnessSend(RetryEvents(Plan))
    \/ HarnessClose
    \/ PrintReceiveInit
    \/ ListenerReceive
    \/ ListenerProcess
    \/ ListenerExit
    \/ PrintReturn

RetrySpec == PrintInit /\ [][RetryNext]_vars

\* The processed events of the given type that name id and carry an error.
FailedEvents(type, id) ==
    {i \in DOMAIN Processed :
        Processed[i].type = type /\ Processed[i].id = id /\ Processed[i].err # ""}

\* The objects planned for the action that a processed event of its type
\* reported as failed.
FailedObjects(action) ==
    {id \in IdsOf(Plan, {action}) : FailedEvents(action, id) # {}}

\* Once an Apply or Prune event with an error was processed for a planned
\* object, its record has an Error, that of the last such event, and Stats
\* counts the object as failed.
ErrorStays ==
    printPc # "waitInit" =>
        /\ \A action \in {"Apply", "Prune"} : \A id \in FailedObjects(action) :
              LET last == CHOOSE i \in FailedEvents(action, id) :
                              \A j \in FailedEvents(action, id) : j <= i
              IN collector.resourceInfos[id].Error = Processed[last].err
        /\ Stats(collector).ApplyStats.Failed = Cardinality(FailedObjects("Apply"))
        /\ Stats(collector).PruneStats.Failed = Cardinality(FailedObjects("Prune"))

\* Processing an event without an error leaves the Error of every record as
\* it is; an Apply or Prune event without an error for a record changes only
\* the record's operation result.
ErrorFreeEventKeepsError ==
    (listenerPc = "lock" /\ listenerPc' # "lock" /\ listenerEv.err = "") =>
        /\ \A id \in DOMAIN collector.resourceInfos :
              collector'.resourceInfos[id].Error = collector.resourceInfos[id].Error
        /\ (listenerEv.type = "Apply" /\ listenerEv.id \in DOMAIN collector.resourceInfos) =>
              RecordView(collector', listenerEv.id) =
                  [RecordView(collector, listenerEv.id) EXCEPT
                      !.ApplyOpResult = listenerEv.op]
        /\ (listenerEv.type = "Prune" /\ listenerEv.id \in DOMAIN collector.resourceInfos) =>
              RecordView(collector', listenerEv.id) =
                  [RecordView(collector, listenerEv.id) EXCEPT
                      !.PruneOpResult = listenerEv.op]

\* C37: once a failed Apply or Prune event has set a record's Error no later
\* event clears it: an event with an error replaces it by its own, an event
\* without one leaves it and, when it is an Apply or Prune event for the
\* object, changes only the operation result; the object is counted in the
\* Failed count of its action by every later Stats.
C37_ErrorIsNeverCleared ==
    /\ []ErrorStays
    /\ [][ErrorFreeEventKeepsError]_vars

C37_Witness ==
    /\ listenerPc = "range"
    /\ Processed = <<PruneEvent(pod, "PruneUnspecified", "prune failed"),
                     PruneEvent(pod, "Pruned", "")>>
    /\ collector.resourceInfos[pod].Error = "prune failed"
    /\ collector.resourceInfos[pod].PruneOpResult = "Pruned"
    /\ Stats(collector).PruneStats.Failed = 1

InventoryIdMismatch ==
    "inventory-id of inventory object in cluster doesn't match provided id"

\* prepareObjects gets as far as the inventory-id check and makes it.
IdIsChecked ==
    /\ ~invInfo.nil
    /\ ValidateNoInventory(objects) = ""
    /\ invInfo.strategy = "Name"
    /\ invInfo.id # ""

\* C38: when prepareObjects checks the inventory id (Name strategy, an id
\* given) and the cluster holds the inventory object with another
\* inventory-id label, it returns the mismatch error and no objects; when
\* there is no such object or its label is the id, it goes on to
\* GetPruneObjs and returns its error or the objects to apply and to prune.
\* A run that reports the mismatch sends nothing but that Error event,
\* builds no task queue, subscribes no poller, applies and deletes nothing.
C38_InventoryIdMismatchIsFatal ==
    LET sent == Sent IN
    /\ (pc = "prepare" /\ IdIsChecked) =>
          \A cio \in ClusterInvObjsResults, pruneErr \in {"", "cannot read the inventory"} :
              LET r == prepareObjects(invInfo, objects, cio, SortObjs(clusterInv), pruneErr)
              IN /\ (/\ cio.err = ""
                     /\ Len(cio.labels) = 1
                     /\ cio.labels[1] # invInfo.id) =>
                        r = PrepareResult(InventoryIdMismatch, <<>>, <<>>)
                 /\ (/\ cio.err = ""
                     /\ \/ cio.labels = <<>>
                        \/ Len(cio.labels) = 1 /\ cio.labels[1] = invInfo.id) =>
                        /\ r.err = pruneErr
                        /\ pruneErr = "" =>
                              /\ r.applyObjs = SortObjs(objects)
                              /\ r.pruneObjs = GetPruneObjs(SortObjs(clusterInv), objects)
    /\ (\E i \in EventsOfType(sent, "Error") : sent[i].err = InventoryIdMismatch) =>
          /\ IdIsChecked
          /\ pc \in {"closing", "done"}
          /\ Len(sent) = 1
          /\ applyObjs = <<>> /\ pruneObjs = <<>>
          /\ taskQueue = <<>>
          /\ subscriptions = <<>>
          /\ deleteCalls = <<>>
          /\ cluster = clusterInv

C38_Witness ==
    /\ pc = "done"
    /\ received = <<handleError(InventoryIdMismatch)>>
    /\ objects # {}
    /\ clusterInv \ objects # {}
    /\ cluster = clusterInv

(***************************************************************************)
(* The ConfigMap inventory (testutil.ConfigMap).  The wrapper holds the    *)
(* wrapped object (icm.inv) and the identifiers last stored                *)
(* (icm.objMetas).  An inventory object is modelled by its "data" field:   *)
(* whether it is present, and the set of its keys (every value is "").    *)
(* The wrapped object is the variable wrapped, the stored identifiers are  *)
(* objMetas, the copy last returned by GetObject is gotObject, and loaded  *)
(* records the last result of Load on the wrapped object and on the copy.  *)
(***************************************************************************)

\* The greatest number of identifiers handed to one Store call.
MaxStored == 2

\* An RBAC object, whose name holds a colon.
clusterRole ==
    ObjMeta("rbac.authorization.k8s.io", "ClusterRole", <<>>, <<"s", ":", "v">>)

\* The identifiers an inventory holds in this development.
StoreIds == {pod, pdb, namespace, clusterRole}

RBACGroupKind ==
    {[group |-> "rbac.authorization.k8s.io", kind |-> k] :
        k \in {"Role", "ClusterRole", "RoleBinding", "ClusterRoleBinding"}}

\* strings.ReplaceAll(name, ":", "__")
RECURSIVE ColonToUnderscores(_)
ColonToUnderscores(s) ==
    IF s = <<>> THEN <<>>
    ELSE IF Head(s) = ":" THEN <<"_", "_">> \o ColonToUnderscores(Tail(s))
    ELSE <<Head(s)>> \o ColonToUnderscores(Tail(s))

\* strings.ReplaceAll(name, "__", ":")
RECURSIVE UnderscoresToColon(_)
UnderscoresToColon(s) ==
    IF s = <<>> THEN <<>>
    ELSE IF Len(s) >= 2 /\ s[1] = "_" /\ s[2] = "_"
         THEN <<":">> \o UnderscoresToColon(SubSeq(s, 3, Len(s)))
    ELSE <<Head(s)>> \o UnderscoresToColon(Tail(s))

\* A group or a kind is one symbol of the key; the empty one leaves no symbol.
Symbol(x) == IF x = "" THEN <<>> ELSE <<x>>
SymbolOf(t) == IF Len(t) = 1 THEN t[1] ELSE ""

\* ObjMetadata.String: namespace_name_group_kind, the colons of an RBAC
\* name written as two underscores.
ObjMetadata_String(o) ==
    LET name == IF [group |-> o.group, kind |-> o.kind] \in RBACGroupKind
                    THEN ColonToUnderscores(o.name)
                    ELSE o.name
    IN  o.namespace \o <<"_">> \o name \o <<"_">> \o Symbol(o.group)
            \o <<"_">> \o Symbol(o.kind)

\* strings.Index and strings.LastIndex of the separator (0: not found).
IndexOfSeparator(s) ==
    IF \E i \in DOMAIN s : s[i] = "_"
        THEN CHOOSE i \in DOMAIN s : s[i] = "_" /\ \A j \in 1..(i - 1) : s[j] # "_"
        ELSE 0
LastIndexOfSeparator(s) ==
    IF \E i \in DOMAIN s : s[i] = "_"
        THEN CHOOSE i \in DOMAIN s : s[i] = "_" /\ \A j \in (i + 1)..Len(s) : s[j] # "_"
        ELSE 0

\* object.ParseObjMetadata: the namespace ends at the first separator, the
\* kind and the group start at the last two; what is left is the name, its
\* double underscores read back as colons.
ParseObjMetadata(s) ==
    LET failed == [id |-> NoId, err |-> "unable to parse stored object metadata"]
        first == IndexOfSeparator(s)
        afterNs == SubSeq(s, first + 1, Len(s))
        kindAt == LastIndexOfSeparator(afterNs)
        beforeKind == SubSeq(afterNs, 1, kindAt - 1)
        groupAt == LastIndexOfSeparator(beforeKind)
        name == UnderscoresToColon(SubSeq(beforeKind, 1, groupAt - 1))
    IN  IF first = 0 \/ kindAt = 0 \/ groupAt = 0 THEN failed
        ELSE IF \E i \in DOMAIN name : name[i] = "_" THEN failed
        ELSE [id |-> ObjMeta(SymbolOf(SubSeq(beforeKind, groupAt + 1, Len(beforeKind))),
                             SymbolOf(SubSeq(afterNs, kindAt + 1, Len(afterNs))),
                             SubSeq(s, 1, first - 1),
                             name),
              err |-> ""]

\* An inventory object without a "data" field, as the test fixture is.
BareInventoryObject == [hasData |-> FALSE, data |-> {}]

\* buildObjMap: one key for every identifier.
buildObjMap(objs) == {ObjMetadata_String(objs[i]) : i \in DOMAIN objs}

\* ConfigMap.Load: the identifiers parsed from the keys of the wrapped
\* object's "data"; the keys come in the order of a map iteration, so the
\* result is a set.  The first key that does not parse ends the call with
\* its error.
ConfigMap_Load(icm) ==
    LET parsed == {ParseObjMetadata(k) : k \in icm.inv.data}
    IN  IF icm.inv.hasData /\ \E p \in parsed : p.err # ""
            THEN [called |-> TRUE, objs |-> {},
                  err |-> (CHOOSE p \in parsed : p.err # "").err]
        ELSE [called |-> TRUE,
              objs |-> IF icm.inv.hasData THEN {p.id : p \in parsed} ELSE {},
              err |-> ""]

\* ConfigMap.Store: keeps the identifiers in the wrapper, the wrapped object
\* is not written.
ConfigMap_Store(icm, objs) == [icm EXCEPT !.objMetas = objs]

ConfigMap_GetObject_Merge(icm) ==
    [hasData |-> TRUE, data |-> icm.inv.data \cup buildObjMap(icm.objMetas)]

\* ConfigMap.GetObject: a deep copy of the wrapped object whose "data" is
\* the map built from the stored identifiers.
ConfigMap_GetObject(icm) ==
    [hasData |-> TRUE, data |-> buildObjMap(icm.objMetas)]

WrapInventoryObj(inv) == [inv |-> inv, objMetas |-> <<>>]

\* createInventoryInfo of prune_test.go: the object a test hands over as the
\* inventory persisted earlier with the given children.
createInventoryInfo(children) ==
    ConfigMap_GetObject(ConfigMap_Store(WrapInventoryObj(BareInventoryObject), children))

\* The wrapper as the variables hold it.
icmNow == [inv |-> wrapped, objMetas |-> objMetas]

NotLoaded == [called |-> FALSE, objs |-> {}, err |-> ""]
NoCopy == [made |-> FALSE, object |-> BareInventoryObject]

\* A wrapper around an object persisted earlier, or around the bare fixture.
ConfigMapInit ==
    /\ wrapped \in {BareInventoryObject}
                    \cup {createInventoryInfo(c) : c \in SeqsUpTo(StoreIds, MaxStored)}
    /\ objMetas = <<>>
    /\ gotObject = NoCopy
    /\ loaded = [inv |-> NotLoaded, copy |-> NotLoaded]
    /\ ApplierIdle /\ ChannelIdle /\ FilterTestIdle /\ PrinterIdle /\ QueryIdle

StoreCall ==
    \E objs \in SeqsUpTo(StoreIds, MaxStored) :
        /\ objMetas' = ConfigMap_Store(icmNow, objs).objMetas
        /\ wrapped' = ConfigMap_Store(icmNow, objs).inv
        /\ UNCHANGED <<gotObject, loaded>>
        /\ UNCHANGED <<applierVars, chanVars, filterTestVars, printerVars, queryVars>>

GetObjectCall ==
    /\ gotObject' = [made |-> TRUE, object |-> ConfigMap_GetObject(icmNow)]
    /\ loaded' = [loaded EXCEPT !.copy = NotLoaded]
    /\ UNCHANGED <<wrapped, objMetas>>
    /\ UNCHANGED <<applierVars, chanVars, filterTestVars, printerVars, queryVars>>

\* Load on the wrapper itself.
LoadCall ==
    /\ loaded' = [loaded EXCEPT !.inv = ConfigMap_Load(icmNow)]
    /\ UNCHANGED <<wrapped, objMetas, gotObject>>
    /\ UNCHANGED <<applierVars, chanVars, filterTestVars, printerVars, queryVars>>

\* Load on a fresh wrapper around the copy GetObject returned.
LoadCopyCall ==
    /\ gotObject.made
    /\ loaded' = [loaded EXCEPT !.copy = ConfigMap_Load(WrapInventoryObj(gotObject.object))]
    /\ UNCHANGED <<wrapped, objMetas, gotObject>>
    /\ UNCHANGED <<applierVars, chanVars, filterTestVars, printerVars, queryVars>>

ConfigMapNext == StoreCall \/ GetObjectCall \/ LoadCall \/ LoadCopyCall

ConfigMapSpec == ConfigMapInit /\ [][ConfigMapNext]_vars

Loaded(objs) == [called |-> TRUE, objs |-> objs, err |-> ""]

\* The copy GetObject returns loads as exactly the identifiers last stored,
\* and the call writes neither the wrapped object nor the stored identifiers.
CopyHoldsTheStored ==
    (gotObject' # gotObject) =>
        /\ gotObject'.made
        /\ ConfigMap_Load(WrapInventoryObj(gotObject'.object)) = Loaded(SeqToSet(objMetas))
        /\ objMetas' = objMetas

\* Store writes the wrapper only: the wrapped object and the copy handed out
\* earlier stay as they are.
StoreWritesTheWrapperOnly == wrapped' = wrapped /\ (objMetas' # objMetas => gotObject' = gotObject)

\* A Load of the wrapper returns the set persisted earlier, whatever was
\* stored since; a Load of the copy returns what the copy holds.
LoadResults ==
    /\ \E c \in SeqsUpTo(StoreIds, MaxStored) :
        /\ wrapped \in {BareInventoryObject, createInventoryInfo(c)}
        /\ ConfigMap_Load(icmNow) = Loaded(SeqToSet(c))
        /\ loaded.inv.called => loaded.inv = Loaded(SeqToSet(c))
    /\ loaded.copy.called =>
        /\ gotObject.made
        /\ loaded.copy = ConfigMap_Load(WrapInventoryObj(gotObject.object))
        /\ loaded.copy.err = ""

ItemKeys == {"group", "kind", "namespace", "name"}

\* The map Store writes for one identifier.
InventoryItem(obj) ==
    [k \in ItemKeys |->
        CASE k = "group" -> obj.group
          [] k = "kind" -> obj.kind
          [] k = "namespace" -> obj.namespace
          [] k = "name" -> obj.name]

\* unstructured.NestedString(m, key), the result alone: the zero value when
\* the key is missing.
NestedString(m, key, zero) == IF key \in DOMAIN m THEN m[key] ELSE zero

NoSpec == [hasSpec |-> FALSE, otherFields |-> FALSE, hasInventory |-> FALSE,
           inventory |-> <<>>]

InventoryCustomType_Load_Swapped(i) ==
    [called |-> TRUE,
     objs |-> IF i.inv.hasSpec /\ i.inv.hasInventory
                THEN [n \in DOMAIN i.inv.inventory |->
                        LET m == i.inv.inventory[n]
                        IN  ObjMeta(NestedString(m, "group", ""),
                                    NestedString(m, "kind", ""),
                                    NestedString(m, "name", <<>>),
                                    NestedString(m, "namespace", <<>>))]
                ELSE <<>>,
     err |-> ""]

\* InventoryCustomType.Load: one identifier for every item of
\* spec.inventory, in the order of the list; none when the field is missing.
InventoryCustomType_Load(i) ==
    [called |-> TRUE,
     objs |-> IF i.inv.hasSpec /\ i.inv.hasInventory
                THEN [n \in DOMAIN i.inv.inventory |->
                        LET m == i.inv.inventory[n]
                        IN  ObjMeta(NestedString(m, "group", ""),
                                    NestedString(m, "kind", ""),
                                    NestedString(m, "namespace", <<>>),
                                    NestedString(m, "name", <<>>))]
                ELSE <<>>,
     err |-> ""]

InventoryCustomType_Store_Append(i, objs) ==
    LET inv == [n \in DOMAIN objs |-> InventoryItem(objs[n])]
    IN  IF Len(inv) > 0
            THEN [inv |-> [i.inv EXCEPT !.hasSpec = TRUE, !.hasInventory = TRUE,
                                        !.inventory = @ \o inv]]
            ELSE [inv |-> NoSpec]

\* InventoryCustomType.Store: writes the items under spec.inventory of the
\* wrapped object, the other fields of spec left as they are; with no item
\* to write, the whole spec field is removed.
InventoryCustomType_Store(i, objs) ==
    LET inv == [n \in DOMAIN objs |-> InventoryItem(objs[n])]
    IN  IF Len(inv) > 0
            THEN [inv |-> [i.inv EXCEPT !.hasSpec = TRUE, !.hasInventory = TRUE,
                                        !.inventory = inv]]
            ELSE [inv |-> NoSpec]

\* The custom-resource wrapper as the variables hold it.
customNow == [inv |-> wrapped]

NeverStored == [called |-> FALSE, objs |-> <<>>]
NeverLoaded == [called |-> FALSE, objs |-> <<>>, err |-> ""]

\* A custom resource without a spec, with a spec that holds no inventory, or
\* with an inventory written earlier.
CustomInit ==
    /\ wrapped \in {NoSpec, [NoSpec EXCEPT !.hasSpec = TRUE, !.otherFields = TRUE]}
            \cup {InventoryCustomType_Store([inv |-> o], c).inv :
                    o \in {NoSpec, [NoSpec EXCEPT !.hasSpec = TRUE, !.otherFields = TRUE]},
                    c \in SeqsUpTo(StoreIds, MaxStored)}
    /\ objMetas = NeverStored
    /\ gotObject = <<>>
    /\ loaded = NeverLoaded
    /\ ApplierIdle /\ ChannelIdle /\ FilterTestIdle /\ PrinterIdle /\ QueryIdle

CustomStoreCall ==
    \E objs \in SeqsUpTo(StoreIds, MaxStored) :
        /\ wrapped' = InventoryCustomType_Store(customNow, objs).inv
        /\ objMetas' = [called |-> TRUE, objs |-> objs]
        /\ loaded' = NeverLoaded
        /\ UNCHANGED gotObject
        /\ UNCHANGED <<applierVars, chanVars, filterTestVars, printerVars, queryVars>>

CustomLoadCall ==
    /\ loaded' = InventoryCustomType_Load(customNow)
    /\ UNCHANGED <<wrapped, objMetas, gotObject>>
    /\ UNCHANGED <<applierVars, chanVars, filterTestVars, printerVars, queryVars>>

CustomNext == CustomStoreCall \/ CustomLoadCall

CustomSpec == CustomInit /\ [][CustomNext]_vars

\* C40: for the custom-resource inventory, a Load after Store(S) returns
\* the identifiers of S in the order of S, whatever the object held before
\* (Store replaces, it does not merge), and after a Store of no identifier
\* the object has no spec field and Load returns no identifier.
C40_LoadReturnsTheStored ==
    /\ (objMetas.called /\ loaded.called) =>
            /\ loaded.objs = objMetas.objs
            /\ loaded.err = ""
    /\ (objMetas.called /\ objMetas.objs = <<>>) => ~wrapped.hasSpec
    /\ \A objs \in SeqsUpTo(StoreIds, MaxStored) :
            LET after == InventoryCustomType_Store(customNow, objs)
            IN  /\ InventoryCustomType_Load(after).objs = objs
                /\ objs = <<>> => after.inv = NoSpec

\* A Load after a Store of two identifiers, RBAC name included, into an
\* object whose spec holds other fields.
C40_Witness ==
    /\ objMetas = [called |-> TRUE, objs |-> <<clusterRole, pod>>]
    /\ loaded = [called |-> TRUE, objs |-> <<clusterRole, pod>>, err |-> ""]
    /\ wrapped.otherFields

\* A Load after a Store of no identifier.
C40_EmptyWitness ==
    /\ objMetas = [called |-> TRUE, objs |-> <<>>]
    /\ loaded = [called |-> TRUE, objs |-> <<>>, err |-> ""]
    /\ wrapped = NoSpec

====
